---- MODULE Spec2Model ----
(***************************************************************************)
(* Sapora LAN collaboration server: the connection manager, the TCP        *)
(* control handlers (register, chat, cleanup), the room directory of       *)
(* SaporaServer, the UDP video router and the UDP audio mixer.             *)
(*                                                                         *)
(* A handler's work on one received message is one action, except where    *)
(* the handler can wait for rooms_lock (threading.Lock, not reentrant):    *)
(* there the handler has a position (pc) before the acquisition.           *)
(***************************************************************************)
EXTENDS Integers, Sequences, FiniteSets, TLC

VARIABLES
    control_clients,  \* ConnectionManager.control_clients: insertion-ordered dict,
                      \* a sequence of [socket, ip, username, room]
    stream_clients,   \* ConnectionManager.stream_clients: ip -> [video, audio] (port, 0 = None)
    closed,           \* sockets the server has closed (socket.close() was called)
    rooms,            \* SaporaServer.rooms: room id -> [clients, participants]
    client_rooms,     \* SaporaServer.client_rooms: socket -> room id
    rooms_lock,       \* SaporaServer.rooms_lock: 0 = free, else the handler holding it
    pc,               \* position of each connection's TCPHandler thread
    h_username,       \* TCPHandler.username
    h_meeting,        \* TCPHandler.meeting_id
    peer,             \* the remote end of each TCP connection: up / gone
    reg_count,        \* number of REGISTER packets handled so far
    accept_blocked,   \* the ControlServer accept thread waits for rooms_lock
    hb_blocked,       \* the heartbeat thread waits for rooms_lock
    audio_buffers,    \* UDPAudioServer.audio_buffers: (ip, port) -> deque of chunks
    udp_count,        \* number of UDP datagrams received so far
    lastChat,         \* what the last handled CHAT did (observation)
    lastVideo,        \* what the last STREAM_VIDEO fan-out did (observation)
    lastMix,          \* what the last audio mix tick did (observation)
    lastRemove,       \* what the registry returned right after the last remove_client
    storage,          \* the file system: path -> inode, for the paths that are files
    inodes,           \* inode -> content (a sequence of bytes)
    file_conn,        \* FileHandler threads: one record per file-transfer connection
    fs_log,           \* the file operations done so far: a set of [op, path]
    lastFile,         \* the file request a handler has just finished, or <<>>
    control_clients_lock,  \* the thread that holds ConnectionManager.control_clients_lock
    threads,          \* manager calls in progress: thread -> its stack of frames
    io_log,           \* the socket and member-map operations of the step just taken: [fn, op, held]
    running,          \* ConnectionManager.running
    codec,            \* one use of the packet codec: its arguments, the bytes, the outcome
    meta,             \* one use of the file-metadata codec
    wire,             \* one TCP connection read by read_tcp_message: bytes on their way and the reader
    now,              \* time.time(), in seconds
    last_seen,        \* UDPAudioServer.last_seen: (ip, port) -> time of its last audio chunk
    removed,          \* _cleanup_stale_clients in the mixer thread: the keys of its list removed
    heard,            \* (ip, port) -> time its last datagram reached the audio port (0 if none)
    recent            \* stream kind, IP -> source port of the last datagram from that IP (0 if none)

vars == <<control_clients, stream_clients, closed, rooms, client_rooms, rooms_lock,
          pc, h_username, h_meeting, peer, reg_count, accept_blocked, hb_blocked,
          audio_buffers, udp_count, lastChat, lastVideo, lastMix, lastRemove,
          storage, inodes, file_conn, fs_log, lastFile,
          control_clients_lock, threads, io_log, running, codec, meta, wire,
          now, last_seen, removed, heard, recent>>

fileVars == <<storage, inodes, file_conn, fs_log>>

controlVars ==
    <<control_clients, stream_clients, closed, rooms, client_rooms, rooms_lock, pc, h_username,
      h_meeting, peer, reg_count, accept_blocked, hb_blocked, audio_buffers, udp_count,
      lastChat, lastVideo, lastMix, lastRemove>>

\* the state of the services that the control plane and the UDP routers leave alone
lockVars == <<control_clients_lock, threads, io_log, running>>

\* the harnesses of the shared helpers
\* the idle bookkeeping of the audio server
idleVars == <<now, last_seen, removed, heard, recent>>

helperVars == <<codec, meta, wire, idleVars>>

otherServices == <<fileVars, lastFile, lockVars, helperVars>>

\* what a datagram on the video port leaves alone
videoRest == <<fileVars, lastFile, lockVars, codec, meta, wire, now, last_seen, removed, heard>>

\* recvfrom has returned a datagram of the stream kind from addr
Received(kind, addr) == recent' = [recent EXCEPT ![kind][addr[1]] = addr[2]]


(***************************************************************************)
(* Bounds of the model.                                                    *)
(***************************************************************************)
NumSockets == 3
NumIPs == 2
NumPorts == 2
MaxDatagrams == 3
NumFrames == 2
MaxRegisters == 3
MaxGone == 1

Sockets == 1..NumSockets
IPs == 1..NumIPs
Ports == 1..NumPorts
Addrs == IPs \X Ports
Frames == 1..NumFrames

\* The source IP of a connection: sockets NumIPs apart come from the same host.
IpOf(s) == ((s - 1) % NumIPs) + 1

Usernames == {"Alice", "alice", "Bob"}
MeetingIds == {"team", "other"}

\* meeting_id values a REGISTER carries
RegisterRooms == MeetingIds
\* target values a CHAT carries (an absent target is read as 'all', tcp_handler.py:126,
\* and takes the branch "Everyone" takes)
ChatTargets == {"Everyone", "", "ALICE", "bob", "nobody"}

None == "<None>"
NoSock == 0

(***************************************************************************)
(* str.lower() and str.strip() on the strings of the model.                *)
(***************************************************************************)
lower(x) ==
    CASE x \in {"Alice", "ALICE", "alice"} -> "alice"
      [] x \in {"Bob", "BOB", "bob"} -> "bob"
      [] x \in {"all", "All", "ALL"} -> "all"
      [] x \in {"Everyone", "everyone"} -> "everyone"
      [] x = " Bob " -> " bob "
      [] OTHER -> x

strip(x) ==
    CASE x = " Bob " -> "Bob"
      [] x = " bob " -> "bob"
      [] OTHER -> x

(***************************************************************************)
(* Python dicts keep insertion order: a dict is a sequence of entries.     *)
(***************************************************************************)
RECURSIVE Filter(_, _)
\* the entries of list q whose index passes keep (a function 1..Len(q) -> BOOLEAN)
Filter(q, keep) ==
    IF q = <<>> THEN <<>>
    ELSE LET rest == Filter(SubSeq(q, 1, Len(q) - 1), keep)
         IN  IF keep[Len(q)] THEN Append(rest, q[Len(q)]) ELSE rest

Range(q) == {q[i] : i \in 1..Len(q)}

Count(q, x) == Cardinality({i \in 1..Len(q) : q[i] = x})

InCC(cc, s) == \E i \in 1..Len(cc) : cc[i].socket = s

InfoOf(cc, s) == cc[CHOOSE i \in 1..Len(cc) : cc[i].socket = s]

PopCC(cc, s) == Filter(cc, [i \in 1..Len(cc) |-> cc[i].socket # s])

SetCC(cc, s, field, val) ==
    [i \in 1..Len(cc) |->
        IF cc[i].socket = s
        THEN CASE field = "username" -> [cc[i] EXCEPT !.username = val]
               [] field = "room" -> [cc[i] EXCEPT !.room = val]
        ELSE cc[i]]

HasStream(sc, ip) == \E i \in 1..Len(sc) : sc[i].ip = ip

\* variant of DelStream: the stream entry of the IP is kept
KeepStream(sc, ip) == sc

DelStream(sc, ip) == Filter(sc, [i \in 1..Len(sc) |-> sc[i].ip # ip])

(***************************************************************************)
(* A TCP send to socket s fails when the server has closed s.  When the    *)
(* remote end is gone a send may fail or not: R.fail is the set of those   *)
(* sockets for which sends fail during the operation at hand.              *)
(***************************************************************************)
SendFails(R, s) == s \in R.closed \/ s \in R.fail

Gone == {s \in DOMAIN peer : peer[s] = "gone"}

(***************************************************************************)
(* ConnectionManager: the registry R = [cc, sc, closed, ok, obs]; ok is    *)
(* FALSE when the calling thread is left waiting for rooms_lock inside the *)
(* call (broadcast_room_user_list takes it, utils.py:107).  free: the lock *)
(* is not held by any other thread.  obs collects, for every remove_client *)
(* call of a registered socket that returned, what the registry answers    *)
(* at that moment.                                                         *)
(***************************************************************************)
get_room_by_ip(cc, ip) ==
    IF \E i \in 1..Len(cc) : cc[i].ip = ip
    THEN cc[CHOOSE i \in 1..Len(cc) :
                cc[i].ip = ip /\ \A j \in 1..(i - 1) : cc[j].ip # ip].room
    ELSE "default"

ip_in_room(cc, ip, room) == \E i \in 1..Len(cc) : cc[i].ip = ip /\ cc[i].room = room

\* variant of register_stream: one entry per (ip, port) instead of one per IP
register_stream_per_address(sc, kind, addr) ==
    Append(sc, [ip |-> addr[1], video |-> IF kind = "video" THEN addr[2] ELSE 0,
                audio |-> IF kind = "audio" THEN addr[2] ELSE 0])

register_stream(sc, kind, addr) ==
    LET sc1 == IF HasStream(sc, addr[1]) THEN sc
               ELSE Append(sc, [ip |-> addr[1], video |-> 0, audio |-> 0])
    IN  [i \in 1..Len(sc1) |->
            IF sc1[i].ip # addr[1] THEN sc1[i]
            ELSE IF kind = "video" THEN [sc1[i] EXCEPT !.video = addr[2]]
            ELSE IF kind = "audio" THEN [sc1[i] EXCEPT !.audio = addr[2]]
            ELSE sc1[i]]

unregister_stream(sc, kind, addr) ==
    [i \in 1..Len(sc) |->
        IF sc[i].ip # addr[1] THEN sc[i]
        ELSE IF kind = "audio" THEN [sc[i] EXCEPT !.audio = 0]
        ELSE IF kind = "video" THEN [sc[i] EXCEPT !.video = 0]
        ELSE sc[i]]

get_video_listeners(cc, sc, room) ==
    LET hit == Filter(sc, [i \in 1..Len(sc) |->
                   sc[i].video # 0 /\ (room = None \/ ip_in_room(cc, sc[i].ip, room))])
    IN  [i \in 1..Len(hit) |-> <<hit[i].ip, hit[i].video>>]

get_audio_listeners(cc, sc, room) ==
    LET hit == Filter(sc, [i \in 1..Len(sc) |->
                   sc[i].audio # 0 /\ (room = None \/ ip_in_room(cc, sc[i].ip, room))])
    IN  [i \in 1..Len(hit) |-> <<hit[i].ip, hit[i].audio>>]

AllRooms == MeetingIds \cup {"default"}

\* what a caller sees when remove_client(s) has just returned
Observe(R, s, ip, had) ==
    [sock |-> s, ip |-> ip, hadStream |-> had,
     inRegistry |-> InCC(R.cc, s),
     video |-> Range(get_video_listeners(R.cc, R.sc, None)),
     audio |-> Range(get_audio_listeners(R.cc, R.sc, None)),
     videoRoom |-> UNION {Range(get_video_listeners(R.cc, R.sc, r)) : r \in AllRooms},
     audioRoom |-> UNION {Range(get_audio_listeners(R.cc, R.sc, r)) : r \in AllRooms}]

Returned(R, s, ip, had) == [R EXCEPT !.obs = Append(@, Observe(R, s, ip, had))]

RECURSIVE remove_client(_, _, _)
RECURSIVE RemoveEach(_, _, _)

\* the loop "for sock in ...: manager.remove_client(sock)"
RemoveEach(R, socks, free) ==
    IF socks = <<>> \/ ~R.ok THEN R
    ELSE RemoveEach(remove_client(R, Head(socks), free), Tail(socks), free)

FailingSockets(R) ==
    LET cc == R.cc
        hit == Filter(cc, [i \in 1..Len(cc) |-> SendFails(R, cc[i].socket)])
    IN  [i \in 1..Len(hit) |-> hit[i].socket]

\* utils.broadcast_user_list: send USER_LIST to every client, remove those whose send fails
broadcast_user_list(R, free) == RemoveEach(R, FailingSockets(R), free)

remove_client(R, s, free) ==
    IF ~InCC(R.cc, s) THEN R
    ELSE LET info == InfoOf(R.cc, s)
             R1 == [R EXCEPT !.cc = PopCC(R.cc, s),
                             !.closed = @ \cup {s},
                             !.sc = DelStream(R.sc, info.ip)]
             had == HasStream(R.sc, info.ip)
         IN  IF info.username = "Unknown" THEN Returned(R1, s, info.ip, had)
             ELSE LET R2 == broadcast_user_list(R1, free)
                  IN  IF R2.ok /\ free THEN Returned(R2, s, info.ip, had)
                      ELSE [R2 EXCEPT !.ok = FALSE]

add_client(R, s, free) ==
    LET R1 == [R EXCEPT !.cc = Append(R.cc,
                   [socket |-> s, ip |-> IpOf(s), username |-> "Unknown", room |-> "default"])]
        R2 == broadcast_user_list(R1, free)
    IN  IF R2.ok THEN [R2 EXCEPT !.ok = free] ELSE R2

\* returns the new control_clients; promoted: the stored username was "Unknown"
update_client_status(cc, s, username, room) ==
    IF ~InCC(cc, s) THEN cc
    ELSE LET c1 == IF username # None /\ InfoOf(cc, s).username = "Unknown"
                   THEN SetCC(cc, s, "username", username) ELSE cc
         IN  IF room # None THEN SetCC(c1, s, "room", room) ELSE c1

set_client_room(cc, s, room) ==
    IF InCC(cc, s) THEN SetCC(cc, s, "room", room) ELSE cc

update_client_status_by_ip(cc, ip, username, room) ==
    IF ~\E i \in 1..Len(cc) : cc[i].ip = ip THEN cc
    ELSE LET k == CHOOSE i \in 1..Len(cc) :
                      cc[i].ip = ip /\ \A j \in 1..(i - 1) : cc[j].ip # ip
             e1 == IF username # None /\ cc[k].username = "Unknown"
                   THEN [cc[k] EXCEPT !.username = username] ELSE cc[k]
             e2 == IF room # None /\ (room # "default" \/ e1.room = "default")
                   THEN [e1 EXCEPT !.room = room] ELSE e1
         IN  [cc EXCEPT ![k] = e2]

Registry(F) ==
    [cc |-> control_clients, sc |-> stream_clients, closed |-> closed, fail |-> F,
     ok |-> TRUE, obs |-> <<>>]

(***************************************************************************)
(* SaporaServer.rooms: room id -> [clients: list, participants: dict].     *)
(***************************************************************************)
EmptyMap == [r \in {} |-> 0]

NewRoom == [clients |-> <<>>, participants |-> <<>>]

\* dict[name] = sock: an existing key keeps its place, a new key goes last
PutParticipant(parts, name, sock) ==
    IF \E i \in 1..Len(parts) : parts[i].name = name
    THEN [i \in 1..Len(parts) |->
             IF parts[i].name = name THEN [name |-> name, sock |-> sock] ELSE parts[i]]
    ELSE Append(parts, [name |-> name, sock |-> sock])

\* list.remove(x): the first occurrence
ListRemove(q, x) ==
    IF ~\E i \in 1..Len(q) : q[i] = x THEN q
    ELSE LET k == CHOOSE i \in 1..Len(q) : q[i] = x /\ \A j \in 1..(i - 1) : q[j] # x
         IN  SubSeq(q, 1, k - 1) \o SubSeq(q, k + 1, Len(q))

\* the loop of tcp_handler.py:282-285: delete the first entry bound to sock
DelParticipantOf(parts, sock) ==
    IF ~\E i \in 1..Len(parts) : parts[i].sock = sock THEN parts
    ELSE LET k == CHOOSE i \in 1..Len(parts) :
                      parts[i].sock = sock /\ \A j \in 1..(i - 1) : parts[j].sock # sock
         IN  SubSeq(parts, 1, k - 1) \o SubSeq(parts, k + 1, Len(parts))

\* the room directory's record of the room a socket is in now
CurrentMembers(r) == {x \in DOMAIN client_rooms : client_rooms[x] = r}

NoChat ==
    [kind |-> "none", sender |-> NoSock, target |-> None, room |-> None,
     sent |-> <<>>, failed |-> <<>>, reply |-> <<>>, avail |-> <<>>]

\* lastChat, lastVideo and lastMix describe the operation that has just run;
\* the next operation starts when they have been taken away (Forget).
Quiet == lastChat = NoChat /\ lastVideo = <<>> /\ lastMix = <<>> /\ lastFile = <<>>
NoCtlObs == lastChat' = NoChat
NoUdpObs == lastVideo' = <<>> /\ lastMix' = <<>>

SetRegistry(R) ==
    /\ control_clients' = R.cc
    /\ stream_clients' = R.sc
    /\ closed' = R.closed
    /\ lastRemove' = R.obs

KeepRegistry ==
    /\ UNCHANGED <<control_clients, stream_clients, closed>>
    /\ lastRemove' = <<>>

(***************************************************************************)
(* The environment: the remote end of a connection goes away (it closes    *)
(* the socket, sends DISCONNECT and stops, or the connection breaks).      *)
(***************************************************************************)
Live(s) == pc[s] \in {"read", "nothread"}

PeerGone(s) ==
    /\ Quiet /\ UNCHANGED otherServices
    /\ Live(s) /\ peer[s] = "up" /\ Cardinality(Gone) < MaxGone
    /\ peer' = [peer EXCEPT ![s] = "gone"]
    /\ KeepRegistry /\ NoCtlObs /\ NoUdpObs
    /\ UNCHANGED <<rooms, client_rooms, rooms_lock, pc, h_username, h_meeting, reg_count,
                   accept_blocked, hb_blocked, audio_buffers, udp_count>>

(***************************************************************************)
(* ControlServer.run: accept, TCPHandler.__init__ (add_client), start.     *)
(* Connections are numbered in the order they are accepted.                *)
(***************************************************************************)
Accept(s) ==
    /\ Quiet /\ UNCHANGED otherServices
    /\ pc[s] = "init" /\ ~accept_blocked
    /\ \A x \in Sockets : x < s => pc[x] # "init"
    /\ \E F \in SUBSET Gone :
         LET R == add_client(Registry(F), s, rooms_lock = 0)
         IN  /\ SetRegistry(R)
             /\ accept_blocked' = ~R.ok
             /\ pc' = [pc EXCEPT ![s] = IF R.ok THEN "read" ELSE "nothread"]
    /\ NoCtlObs /\ NoUdpObs
    /\ UNCHANGED <<rooms, client_rooms, rooms_lock, h_username, h_meeting, peer, reg_count,
                   hb_blocked, audio_buffers, udp_count>>

\* the socket of handler s still delivers a message from its peer
CanRead(s) == pc[s] = "read" /\ s \notin closed /\ peer[s] = "up"

(***************************************************************************)
(* TCPHandler._handle_register.  The manager calls come first; then the    *)
(* handler needs rooms_lock to join the room, and again (inside            *)
(* broadcast_room_user_list) to notify it: when another thread holds the   *)
(* lock for good, the handler stays waiting after the manager calls.       *)
(* update_client_status / set_client_room start a thread that runs         *)
(* broadcast_user_list: it removes the clients its send fails for.         *)
(***************************************************************************)
join_room(rm, s, u, m) ==
    LET room == IF m \in DOMAIN rm THEN rm[m] ELSE NewRoom
        room1 == [clients |-> IF s \in Range(room.clients) THEN room.clients
                              ELSE Append(room.clients, s),
                  participants |-> PutParticipant(room.participants, u, s)]
    IN  [r \in DOMAIN rm \cup {m} |-> IF r = m THEN room1 ELSE rm[r]]

HandleRegister(s, u, m) ==
    /\ Quiet /\ UNCHANGED otherServices
    /\ CanRead(s) /\ reg_count < MaxRegisters
    /\ reg_count' = reg_count + 1
    /\ h_username' = [h_username EXCEPT ![s] = u]
    /\ h_meeting' = [h_meeting EXCEPT ![s] = m]
    /\ \E F \in SUBSET Gone :
         LET cc1 == set_client_room(update_client_status(control_clients, s, u, None), s, m)
             R == broadcast_user_list([Registry(F) EXCEPT !.cc = cc1], rooms_lock = 0)
         IN  SetRegistry(R)
    /\ IF rooms_lock = 0
       THEN /\ rooms' = join_room(rooms, s, u, m)
            /\ client_rooms' = [x \in DOMAIN client_rooms \cup {s} |->
                                   IF x = s THEN m ELSE client_rooms[x]]
            /\ UNCHANGED pc
       ELSE /\ pc' = [pc EXCEPT ![s] = "blocked"]
            /\ UNCHANGED <<rooms, client_rooms>>
    /\ NoCtlObs /\ NoUdpObs
    /\ UNCHANGED <<rooms_lock, peer, accept_blocked, hb_blocked, audio_buffers, udp_count>>

(***************************************************************************)
(* TCPHandler._handle_chat and _send_to_targets.                           *)
(***************************************************************************)
IsBroadcast(target) == ~(target # "" /\ lower(target) \notin {"all", "everyone"})

\* participants_ci[target_lower]: the dict comprehension keeps, for each
\* folded name, the last entry that has it
UnicastHit(parts, target) ==
    LET tl == lower(strip(target))
        idx == {i \in 1..Len(parts) : lower(strip(parts[i].name)) = tl}
    IN  IF idx = {} THEN NoSock
        ELSE parts[CHOOSE i \in idx : \A j \in idx : j <= i].sock

\* variant of chat_targets: a unicast that finds nobody goes to the whole room
chat_targets_fallback(room, s, target) ==
    IF IsBroadcast(target) \/ UnicastHit(room.participants, target) = NoSock
    THEN Filter(room.clients, [i \in 1..Len(room.clients) |-> room.clients[i] # s])
    ELSE <<UnicastHit(room.participants, target)>>

\* ', '.join(participants.keys()): the names the error packet lists
available_users(room) == [i \in 1..Len(room.participants) |-> room.participants[i].name]

\* the list of sockets the chat packet is sent to; <<NoSock>> stands for a miss
chat_targets(room, s, target) ==
    IF IsBroadcast(target)
    THEN Filter(room.clients, [i \in 1..Len(room.clients) |-> room.clients[i] # s])
    ELSE <<UnicastHit(room.participants, target)>>

confirm_type(sent_count, failed_count) ==
    IF sent_count > 0 \/ failed_count = 0 THEN "delivery_confirm" ELSE "error"

HandleChat(s, target) ==
    /\ Quiet /\ UNCHANGED otherServices
    /\ CanRead(s) /\ rooms_lock = 0
    /\ LET m == h_meeting[s]
           base == [NoChat EXCEPT !.sender = s, !.target = target, !.room = m]
       IN  IF m \notin DOMAIN rooms
           THEN /\ lastChat' = [base EXCEPT !.kind = "noroom", !.reply = <<"error">>]
                /\ KeepRegistry
           ELSE LET targets == chat_targets(rooms[m], s, target)
                IN  IF targets = <<NoSock>>
                    THEN /\ lastChat' = [base EXCEPT !.kind = "miss", !.reply = <<"error">>,
                                                       !.avail = available_users(rooms[m])]
                         /\ KeepRegistry
                    ELSE \E F \in SUBSET Gone :
                         LET R0 == Registry(F)
                             ok == Filter(targets, [i \in 1..Len(targets) |->
                                                      ~SendFails(R0, targets[i])])
                             bad == Filter(targets, [i \in 1..Len(targets) |->
                                                       SendFails(R0, targets[i])])
                             R == RemoveEach(R0, bad, TRUE)
                         IN  /\ lastChat' =
                                   [base EXCEPT
                                      !.kind = IF IsBroadcast(target) THEN "broadcast"
                                               ELSE "unicast",
                                      !.sent = ok, !.failed = bad,
                                      !.reply = <<confirm_type(Len(ok), Len(bad))>>]
                             /\ SetRegistry(R)
    /\ NoUdpObs
    /\ UNCHANGED <<rooms, client_rooms, rooms_lock, pc, h_username, h_meeting, peer,
                   reg_count, accept_blocked, hb_blocked,
                   audio_buffers, udp_count>>

(***************************************************************************)
(* TCPHandler.run leaves its loop (empty read, DISCONNECT, reset, or a     *)
(* socket the server closed) and runs _cleanup: manager.remove_client,     *)
(* then, under rooms_lock, it leaves its room.  A handler that joined a    *)
(* room calls broadcast_room_user_list (tcp_handler.py:289) while holding  *)
(* rooms_lock; that function acquires rooms_lock (utils.py:107) and        *)
(* threading.Lock is not reentrant: the thread waits for itself, lines     *)
(* 290-299 are never reached and the lock is never released.  From then on *)
(* every thread that needs rooms_lock waits for good as well.              *)
(***************************************************************************)
leave_room(rm, s, room_id) ==
    [rm EXCEPT ![room_id] = [clients |-> ListRemove(rm[room_id].clients, s),
                             participants |-> DelParticipantOf(rm[room_id].participants, s)]]

\* TCPHandler._cleanup, reached from the finally clause of run
cleanup(s) ==
    /\ \E F \in SUBSET Gone :
         LET R == remove_client(Registry(F), s, rooms_lock = 0)
             joined == s \in DOMAIN client_rooms /\ client_rooms[s] \in DOMAIN rooms
         IN  /\ control_clients' = R.cc
             /\ stream_clients' = R.sc
             /\ lastRemove' = R.obs
             /\ IF ~R.ok \/ rooms_lock # 0
                THEN /\ pc' = [pc EXCEPT ![s] = "blocked"]
                     /\ closed' = R.closed
                     /\ UNCHANGED <<rooms, client_rooms, rooms_lock>>
                ELSE /\ client_rooms' = [x \in DOMAIN client_rooms \ {s} |-> client_rooms[x]]
                     /\ IF joined
                        THEN /\ rooms' = leave_room(rooms, s, client_rooms[s])
                             /\ rooms_lock' = s
                             /\ pc' = [pc EXCEPT ![s] = "blocked"]
                             /\ closed' = R.closed
                        ELSE /\ pc' = [pc EXCEPT ![s] = "done"]
                             /\ closed' = R.closed \cup {s}
                             /\ UNCHANGED <<rooms, rooms_lock>>
    /\ NoCtlObs /\ NoUdpObs
    /\ UNCHANGED <<h_username, h_meeting, peer, reg_count, accept_blocked, hb_blocked,
                   audio_buffers, udp_count>>

\* run leaves its loop because the connection ended
Cleanup(s) ==
    /\ Quiet /\ UNCHANGED otherServices
    /\ pc[s] = "read" /\ (s \in closed \/ peer[s] = "gone")
    /\ cleanup(s)

(***************************************************************************)
(* ConnectionManager._run_heartbeat: a tick in which a send fails.         *)
(***************************************************************************)
Heartbeat ==
    /\ Quiet /\ UNCHANGED otherServices
    /\ ~hb_blocked
    /\ \E F \in SUBSET Gone :
         LET R0 == Registry(F)
             R == RemoveEach(R0, FailingSockets(R0), rooms_lock = 0)
         IN  /\ FailingSockets(R0) # <<>>
             /\ SetRegistry(R)
             /\ hb_blocked' = ~R.ok
    /\ NoCtlObs /\ NoUdpObs
    /\ UNCHANGED <<rooms, client_rooms, rooms_lock, pc, h_username, h_meeting, peer,
                   reg_count, accept_blocked, audio_buffers, udp_count>>

Forget ==
    /\ ~Quiet /\ UNCHANGED <<fileVars, lockVars, helperVars>> /\ lastFile' = <<>>
    /\ NoCtlObs /\ NoUdpObs
    /\ UNCHANGED <<control_clients, stream_clients, closed, rooms, client_rooms, rooms_lock,
                   pc, h_username, h_meeting, peer, reg_count, accept_blocked, hb_blocked,
                   audio_buffers, udp_count, lastRemove>>

(***************************************************************************)
(* UDPVideoServer.run: one datagram.  The source is registered as a video  *)
(* listener before the datagram is parsed.                                 *)
(***************************************************************************)
\* the video return addresses the registry holds
VideoRegistered(sc) == {<<sc[i].ip, sc[i].video>> : i \in {j \in 1..Len(sc) : sc[j].video # 0}}

\* variant of broadcast_frame_targets: the sender's own address is not skipped
broadcast_frame_targets_echo(cc, sc, sender_addr) ==
    get_video_listeners(cc, sc, get_room_by_ip(cc, sender_addr[1]))

\* the addresses _broadcast_frame sends the datagram to, in order
broadcast_frame_targets(cc, sc, sender_addr) ==
    LET room == get_room_by_ip(cc, sender_addr[1])
        listeners == get_video_listeners(cc, sc, room)
    IN  Filter(listeners, [i \in 1..Len(listeners) |-> listeners[i] # sender_addr])

RECURSIVE UnregisterEach(_, _, _)
UnregisterEach(sc, kind, addrs) ==
    IF addrs = <<>> THEN sc
    ELSE UnregisterEach(unregister_stream(sc, kind, Head(addrs)), kind, Tail(addrs))

VideoFrame(addr, data) ==
    /\ Quiet /\ UNCHANGED videoRest /\ Received("video", addr) /\ udp_count < MaxDatagrams
    /\ udp_count' = udp_count + 1
    /\ LET sc1 == register_stream(stream_clients, "video", addr)
           targets == broadcast_frame_targets(control_clients, sc1, addr)
       IN  \E bad \in SUBSET Range(targets) :
             /\ stream_clients' =
                    UnregisterEach(sc1, "video",
                                   Filter(targets, [i \in 1..Len(targets) |-> targets[i] \in bad]))
             /\ lastVideo' = <<[src |-> addr, data |-> data,
                              registered |-> VideoRegistered(sc1),
                              sends |-> [i \in 1..Len(targets) |->
                                            [to |-> targets[i], data |-> data]],
                              failed |-> bad]>>
    /\ lastChat' = NoChat /\ lastMix' = <<>> /\ lastRemove' = <<>>
    /\ UNCHANGED <<control_clients, closed, rooms, client_rooms, rooms_lock, pc, h_username,
                   h_meeting, peer, reg_count, accept_blocked, hb_blocked, audio_buffers>>

\* a REGISTER datagram on the video port: JSON {username, room}
VideoRegister(addr, u, room) ==
    /\ Quiet /\ UNCHANGED videoRest /\ Received("video", addr) /\ reg_count < MaxRegisters
    /\ reg_count' = reg_count + 1
    /\ stream_clients' = register_stream(stream_clients, "video", addr)
    /\ control_clients' = update_client_status_by_ip(control_clients, addr[1], u, room)
    /\ NoCtlObs /\ NoUdpObs /\ lastRemove' = <<>>
    /\ UNCHANGED <<closed, rooms, client_rooms, rooms_lock, pc, h_username, h_meeting, peer,
                   udp_count, accept_blocked, hb_blocked, audio_buffers>>

(***************************************************************************)
(* UDPAudioServer: ingest (run, _handle_incoming_chunk) and the mixer.     *)
(* A chunk is [src, ok]: its source address and whether its length is the  *)
(* canonical chunk size; a mixed frame is given by the chunks it averages. *)
(***************************************************************************)
JitterMaxLen == 10

\* what a datagram on the audio port leaves alone
audioRest == <<fileVars, lastFile, lockVars, codec, meta, wire, now, removed>>

\* dict[key] = value
Put(f, k, v) == [x \in DOMAIN f \cup {k} |-> IF x = k THEN v ELSE f[x]]

\* variant of deque_append: a plain list, nothing is ever discarded
list_append(q, x) == Append(q, x)

\* deque(maxlen=10).append
deque_append(q, x) ==
    IF Len(q) >= JitterMaxLen THEN Append(Tail(q), x) ELSE Append(q, x)

AudioChunk(addr, ok) ==
    /\ Quiet /\ UNCHANGED audioRest /\ udp_count < MaxDatagrams
    /\ udp_count' = udp_count + 1
    /\ heard' = [heard EXCEPT ![addr] = now] /\ Received("audio", addr)
    /\ last_seen' = Put(last_seen, addr, now)
    /\ stream_clients' = register_stream(stream_clients, "audio", addr)
    /\ LET chunk == [src |-> addr, ok |-> ok]
           q == IF addr \in DOMAIN audio_buffers THEN audio_buffers[addr] ELSE <<>>
       IN  audio_buffers' = [k \in DOMAIN audio_buffers \cup {addr} |->
                                IF k = addr THEN deque_append(q, chunk) ELSE audio_buffers[k]]
    /\ NoCtlObs /\ NoUdpObs /\ lastRemove' = <<>>
    /\ UNCHANGED <<control_clients, closed, rooms, client_rooms, rooms_lock, pc, h_username,
                   h_meeting, peer, reg_count, accept_blocked, hb_blocked>>

\* the most audio datagrams a long burst holds
MaxBurst == 12

\* the sources of the burst
BurstSources == {<<1, 1>>, <<2, 1>>}

\* _handle_incoming_chunk, STREAM_AUDIO: the same ingest as AudioChunk, with
\* the payload told apart by its arrival number
AudioBurst(addr) ==
    /\ Quiet /\ UNCHANGED audioRest /\ udp_count < MaxBurst
    /\ udp_count' = udp_count + 1
    /\ heard' = [heard EXCEPT ![addr] = now] /\ Received("audio", addr)
    /\ last_seen' = Put(last_seen, addr, now)
    /\ stream_clients' = register_stream(stream_clients, "audio", addr)
    /\ LET chunk == [src |-> addr, ok |-> TRUE, seq |-> udp_count + 1]
           q == IF addr \in DOMAIN audio_buffers THEN audio_buffers[addr] ELSE <<>>
       IN  audio_buffers' = [k \in DOMAIN audio_buffers \cup {addr} |->
                                IF k = addr THEN deque_append(q, chunk) ELSE audio_buffers[k]]
    /\ NoCtlObs /\ NoUdpObs /\ lastRemove' = <<>>
    /\ UNCHANGED <<control_clients, closed, rooms, client_rooms, rooms_lock, pc, h_username,
                   h_meeting, peer, reg_count, accept_blocked, hb_blocked>>

AudioRegister(addr, u, room) ==
    /\ Quiet /\ UNCHANGED audioRest /\ reg_count < MaxRegisters
    /\ reg_count' = reg_count + 1
    /\ heard' = [heard EXCEPT ![addr] = now] /\ Received("audio", addr)
    /\ UNCHANGED last_seen
    /\ stream_clients' = register_stream(stream_clients, "audio", addr)
    /\ control_clients' = update_client_status_by_ip(control_clients, addr[1], u, room)
    /\ NoCtlObs /\ NoUdpObs /\ lastRemove' = <<>>
    /\ UNCHANGED <<closed, rooms, client_rooms, rooms_lock, pc, h_username, h_meeting, peer,
                   udp_count, accept_blocked, hb_blocked, audio_buffers>>

\* the oldest chunk of every source that has one (udp_audio_server.py:122-128)
pop_chunks(bufs) == {Head(bufs[k]) : k \in {x \in DOMAIN bufs : bufs[x] # <<>>}}

\* variant of sources_for_mix: the room of the source is not compared
sources_for_mix_anyroom(cc, target, chunks) == {c \in chunks : c.src # target}

\* udp_audio_server.py:155-165: the chunks mixed for one target
sources_for_mix(cc, target, chunks) ==
    {c \in chunks : /\ c.src # target
                    /\ get_room_by_ip(cc, c.src[1]) = get_room_by_ip(cc, target[1])}

\* utils.mix_audio_chunks: the chunks of canonical size are averaged into one
\* frame; the frame is given by the chunks it averages, {} stands for None
mix_audio_chunks(chunks) == {c \in chunks : c.ok}

\* the frames one tick sends: for each listener, in order, its mix if there is one
mixer_frames(cc, targets, chunks) ==
    LET mixOf(tg) == mix_audio_chunks(sources_for_mix(cc, tg, chunks))
        hit == Filter(targets, [i \in 1..Len(targets) |-> mixOf(targets[i]) # {}])
    IN  [i \in 1..Len(hit) |-> [to |-> hit[i], mix |-> mixOf(hit[i])]]

MixTick ==
    /\ Quiet /\ UNCHANGED otherServices
    /\ pop_chunks(audio_buffers) # {}
    /\ audio_buffers' = [k \in DOMAIN audio_buffers |->
                            IF audio_buffers[k] # <<>> THEN Tail(audio_buffers[k]) ELSE <<>>]
    /\ LET chunks == pop_chunks(audio_buffers)
           targets == get_audio_listeners(control_clients, stream_clients, None)
           frames == mixer_frames(control_clients, targets, chunks)
           sentTo == [i \in 1..Len(frames) |-> frames[i].to]
       IN  \E bad \in SUBSET Range(sentTo) :
             /\ stream_clients' =
                    UnregisterEach(stream_clients, "audio",
                                   Filter(sentTo, [i \in 1..Len(sentTo) |-> sentTo[i] \in bad]))
             /\ lastMix' = <<[chunks |-> chunks, listeners |-> targets, frames |-> frames,
                            failed |-> bad]>>
    /\ lastChat' = NoChat /\ lastVideo' = <<>> /\ lastRemove' = <<>>
    /\ UNCHANGED <<control_clients, closed, rooms, client_rooms, rooms_lock, pc, h_username,
                   h_meeting, peer, reg_count, accept_blocked, hb_blocked, udp_count>>

(***************************************************************************)
(* UDPAudioServer._cleanup_stale_clients, called by the mixer thread in    *)
(* every cycle.  It deletes the stale keys from last_seen under            *)
(* last_seen_lock, releases it, and only then deletes their buffers under  *)
(* buffers_lock and unregisters their audio streams: the ingest thread can *)
(* run between the two.  Time is counted in whole seconds.                 *)
(***************************************************************************)
CLIENT_TIMEOUT == 5

\* the seconds that pass in one step of time, and the last second of a run
TimeStep == 3
MaxTime == 9

\* time.time() moves on
Elapse ==
    /\ now + TimeStep <= MaxTime
    /\ now' = now + TimeStep
    /\ UNCHANGED <<controlVars, fileVars, lastFile, lockVars, codec, meta, wire,
                   last_seen, removed, heard, recent>>

\* udp_audio_server.py:203-209
stale_keys(seen, t) == {k \in DOMAIN seen : seen[k] < t - CLIENT_TIMEOUT}

RECURSIVE UnregisterAll(_, _, _)
UnregisterAll(sc, kind, keys) ==
    IF keys = {} THEN sc
    ELSE LET k == CHOOSE x \in keys : TRUE
         IN  UnregisterAll(unregister_stream(sc, kind, k), kind, keys \ {k})

\* the first half, under last_seen_lock
CleanupScan ==
    /\ removed = {} /\ stale_keys(last_seen, now) # {}
    /\ removed' = stale_keys(last_seen, now)
    /\ last_seen' = [k \in DOMAIN last_seen \ stale_keys(last_seen, now) |-> last_seen[k]]
    /\ UNCHANGED <<controlVars, fileVars, lastFile, lockVars, codec, meta, wire, now, heard, recent>>

\* the second half (udp_audio_server.py:210-220)
CleanupDrop ==
    /\ removed # {}
    /\ removed' = {}
    /\ audio_buffers' = [k \in DOMAIN audio_buffers \ removed |-> audio_buffers[k]]
    /\ stream_clients' = UnregisterAll(stream_clients, "audio", removed)
    /\ NoCtlObs /\ NoUdpObs
    /\ UNCHANGED <<control_clients, closed, rooms, client_rooms, rooms_lock, pc, h_username,
                   h_meeting, peer, reg_count, accept_blocked, hb_blocked, udp_count,
                   lastRemove>>
    /\ UNCHANGED <<fileVars, lastFile, lockVars, codec, meta, wire, now, last_seen, heard,
                   recent>>

(***************************************************************************)
(* The file transfer server.  A file name is a string, modelled as a       *)
(* sequence of characters; a path is a sequence of names.  The file system *)
(* is storage (path -> inode) and inodes (inode -> bytes): a handler that  *)
(* has a file open keeps writing to its inode whatever happens to the path.*)
(***************************************************************************)
MaxChunk == 2
MaxFileConns == 2
FileConns == 1..MaxFileConns
Bytes == {"a", "b"}
Zero == "0"

STORAGE_DIR == <<"s", "f">>
SiblingDir == <<"s", "f", "2">>
Cwd == << <<"w">> >>
Dirs == {Cwd, Append(Cwd, STORAGE_DIR), Append(Cwd, SiblingDir)}

MAX_FILE_SIZE == 104857600
NoChecksum == <<>>
Md5(content) == <<"md5", content>>
NoDigest == <<"None">>

Filenames ==
    { <<"r">>,
      <<>>,
      <<".", ".", "/", "r">>,
      <<".", ".", "/", "s", "f", "2", "/", "r">> }
FileSizes == {0, 1, 2, MAX_FILE_SIZE + 1}
Checksums == {NoChecksum, Md5(<<"a">>), Md5(<<"a", "b">>)}
FileTargets == {"all", "ALICE", "nobody"}
Chunks == UNION {[1..n -> Bytes] : n \in 1..MaxChunk}

\* the components of a path string
RECURSIVE PathParts(_)
PathParts(str) ==
    IF str = <<>> THEN <<>>
    ELSE LET cut == IF \E i \in 1..Len(str) : str[i] = "/"
                    THEN CHOOSE i \in 1..Len(str) :
                             str[i] = "/" /\ \A j \in 1..(i - 1) : str[j] # "/"
                    ELSE Len(str) + 1
             name == SubSeq(str, 1, cut - 1)
             rest == PathParts(SubSeq(str, cut + 1, Len(str)))
         IN  IF name = <<>> THEN rest ELSE <<name>> \o rest

\* Path.resolve(): the absolute path with '.' and '..' folded away
RECURSIVE resolve(_, _)
resolve(base, parts) ==
    IF parts = <<>> THEN base
    ELSE LET n == Head(parts)
         IN  resolve(IF n = <<".", ".">>
                        THEN (IF base = <<>> THEN base ELSE SubSeq(base, 1, Len(base) - 1))
                     ELSE IF n = <<".">> THEN base
                     ELSE Append(base, n),
                     Tail(parts))

\* str(path)
RECURSIVE PathStr(_)
PathStr(path) ==
    IF path = <<>> THEN <<>> ELSE <<"/">> \o Head(path) \o PathStr(Tail(path))

startswith(str, prefix) ==
    Len(prefix) <= Len(str) /\ SubSeq(str, 1, Len(prefix)) = prefix

storage_dir == resolve(Cwd, <<STORAGE_DIR>>)

file_path_of(filename) == resolve(Cwd, <<STORAGE_DIR>> \o PathParts(filename))

\* the traversal test of both request handlers
path_accepted(file_path) == startswith(PathStr(file_path), PathStr(storage_dir))

IdleConn ==
    [pc |-> "idle", ip |-> 0, request |-> "none", filename |-> <<>>, file_path |-> <<>>,
     filesize |-> 0, checksum |-> NoChecksum, target |-> "all", bytes_received |-> 0,
     buf |-> <<>>, pos |-> 0, inode |-> 0, on_disk |-> <<>>, replies |-> <<>>,
     announced |-> <<>>, sent |-> <<>>, before |-> <<>>]

Reply(type, reason) == [type |-> type, reason |-> reason]

exists(st, path) == path \in DOMAIN st \/ path \in Dirs

\* variant of Unlink: the file stays where it is
KeepFile(st, path) == st

Unlink(st, path) == [p \in DOMAIN st \ {path} |-> st[p]]

\* the bytes of an open file after data is written at offset pos
WriteAt(content, pos, data) ==
    LET n == IF Len(content) > pos + Len(data) THEN Len(content) ELSE pos + Len(data)
    IN  [i \in 1..n |->
            IF i > pos /\ i <= pos + Len(data) THEN data[i - pos]
            ELSE IF i <= Len(content) THEN content[i] ELSE Zero]

\* the buffered writer hands its pending bytes to the file
Flush(ino, c) ==
    IF c.buf = <<>> THEN ino
    ELSE [ino EXCEPT ![c.inode] = WriteAt(ino[c.inode], c.pos, c.buf)]

Flushed(c) == [c EXCEPT !.buf = <<>>, !.pos = c.pos + Len(c.buf)]

FlushLog(c) == IF c.buf = <<>> THEN {} ELSE {[op |-> "write", path |-> c.file_path]}

get_client_username_by_ip(cc, ip) ==
    LET named == {i \in 1..Len(cc) : cc[i].ip = ip /\ cc[i].username # "Unknown"}
    IN  IF named = {} THEN <<"ip", ip>>
        ELSE cc[CHOOSE i \in named : \A j \in named : i <= j].username

\* the sockets the file_announce packet is sent to
file_notification_targets(cc, rms, ip, target) ==
    LET sender_room == get_room_by_ip(cc, ip)
        sndr == get_client_username_by_ip(cc, ip)
    IN  IF sender_room \notin DOMAIN rms THEN <<>>
        ELSE LET parts == rms[sender_room].participants
                 targets ==
                     IF lower(strip(target)) \in {"all", "everyone", ""}
                     THEN [i \in 1..Len(parts) |-> parts[i].sock]
                     ELSE IF UnicastHit(parts, target) = NoSock THEN <<>>
                          ELSE <<UnicastHit(parts, target)>>
             IN  IF \E i \in 1..Len(parts) : parts[i].name = sndr
                 THEN LET sender_sock ==
                              parts[CHOOSE i \in 1..Len(parts) : parts[i].name = sndr].sock
                      IN  Filter(targets, [i \in 1..Len(targets) |-> targets[i] # sender_sock])
                 ELSE targets

\* _calculate_md5: None when the file cannot be opened
calculate_md5(st, ino, path) ==
    IF path \in DOMAIN st THEN Md5(ino[st[path]]) ELSE NoDigest

\* variant of checksum_ok: the declared checksum is never compared
checksum_unchecked(checksum, actual) == TRUE

\* whether the declared checksum is accepted for the digest of the stored file
checksum_ok(checksum, actual) == ~(checksum # NoChecksum /\ actual # checksum)

\* a finished handler: its thread has ended, lastFile keeps what it did
Finish(h, c) ==
    /\ file_conn' = [file_conn EXCEPT ![h] = [IdleConn EXCEPT !.pc = "done"]]
    /\ lastFile' = <<[c EXCEPT !.pc = "done"]>>

\* variant of Failed: the failure is not answered
Unanswered(c, reason) == c

Failed(c, reason) ==
    [c EXCEPT !.replies = Append(c.replies, Reply("FILE_ACK_FAILURE", reason))]

\* connections are numbered in the order in which their requests are read
NextConn(h) == file_conn[h].pc = "idle" /\ \A g \in 1..(h - 1) : file_conn[g].pc # "idle"

\* run() reads the request; _handle_upload_request validates it and opens the file
UploadRequest(h, ip, filename, filesize, checksum, target) ==
    /\ Quiet /\ UNCHANGED <<controlVars, lockVars, helperVars>>
    /\ NextConn(h)
    /\ LET c0 == [file_conn[h] EXCEPT !.ip = ip, !.request = "upload", !.filename = filename,
                                     !.filesize = filesize, !.checksum = checksum,
                                     !.target = IF target # "" /\ target # "all"
                                                THEN target ELSE "all",
                                     \* what the file of that name held when the request came
                                     !.before = IF file_path_of(filename) \in DOMAIN storage
                                                THEN <<inodes[storage[file_path_of(filename)]]>>
                                                ELSE <<>>]
           path == file_path_of(filename)
       IN  IF filename = <<>> \/ filesize <= 0
           THEN /\ Finish(h, Failed(c0, "Invalid filename or filesize"))
                /\ UNCHANGED <<storage, inodes, fs_log>>
           ELSE IF filesize > MAX_FILE_SIZE
           THEN /\ Finish(h, Failed(c0, "File too large"))
                /\ UNCHANGED <<storage, inodes, fs_log>>
           ELSE IF ~path_accepted(path)
           THEN /\ Finish(h, Failed([c0 EXCEPT !.file_path = path], "Invalid filename"))
                /\ UNCHANGED <<storage, inodes, fs_log>>
           ELSE IF path \in Dirs \/ SubSeq(path, 1, Len(path) - 1) \notin Dirs
           THEN \* open() raises; the handler finds nothing to delete
                /\ Finish(h, Failed([c0 EXCEPT !.file_path = path], "open failed"))
                /\ UNCHANGED <<storage, inodes, fs_log>>
           ELSE IF path \in DOMAIN storage
           THEN \* open(file_path, 'wb') truncates the file that is there
                /\ inodes' = [inodes EXCEPT ![storage[path]] = <<>>]
                /\ file_conn' = [file_conn EXCEPT ![h] =
                                     [c0 EXCEPT !.pc = "receiving", !.file_path = path,
                                                !.inode = storage[path]]]
                /\ fs_log' = fs_log \cup {[op |-> "truncate", path |-> path]}
                /\ UNCHANGED <<storage, lastFile>>
           ELSE \* open(file_path, 'wb') creates the file
                /\ inodes' = Append(inodes, <<>>)
                /\ storage' = [p \in DOMAIN storage \cup {path} |->
                                  IF p = path THEN Len(inodes) + 1 ELSE storage[p]]
                /\ file_conn' = [file_conn EXCEPT ![h] =
                                     [c0 EXCEPT !.pc = "receiving", !.file_path = path,
                                                !.inode = Len(inodes) + 1]]
                /\ fs_log' = fs_log \cup {[op |-> "create", path |-> path]}
                /\ UNCHANGED lastFile

\* one FILE_CHUNK message: f.write(chunk_payload); through: the writer passes the
\* bytes on at once instead of keeping them until the file is closed
UploadChunk(h, payload, through) ==
    /\ Quiet /\ UNCHANGED <<controlVars, lockVars, helperVars>>
    /\ file_conn[h].pc = "receiving"
    /\ LET c == file_conn[h]
           c1 == [c EXCEPT !.buf = c.buf \o payload,
                           !.bytes_received = c.bytes_received + Len(payload)]
           last == ~(c1.bytes_received < c1.filesize)
       IN  IF through \/ last
           THEN /\ inodes' = Flush(inodes, c1)
                /\ fs_log' = fs_log \cup FlushLog(c1)
                /\ file_conn' = [file_conn EXCEPT ![h] =
                                     [Flushed(c1) EXCEPT !.pc = IF last THEN "received"
                                                                ELSE "receiving"]]
           ELSE /\ file_conn' = [file_conn EXCEPT ![h] = c1]
                /\ UNCHANGED <<inodes, fs_log>>
    /\ UNCHANGED <<storage, lastFile>>

\* the except branch: close the file, delete file_path if it exists, reply failure
upload_failed(h, c, reason) ==
    /\ inodes' = Flush(inodes, c)
    /\ storage' = IF c.file_path \in DOMAIN storage THEN Unlink(storage, c.file_path)
                  ELSE storage
    /\ fs_log' = fs_log \cup FlushLog(c)
                   \cup (IF c.file_path \in DOMAIN storage
                         THEN {[op |-> "unlink", path |-> c.file_path]} ELSE {})
    /\ Finish(h, Failed(Flushed(c), reason))

\* the connection is lost, or a message other than FILE_CHUNK arrives, mid-transfer
UploadAbort(h, reason) ==
    /\ Quiet /\ UNCHANGED <<controlVars, lockVars, helperVars>>
    /\ file_conn[h].pc = "receiving"
    /\ upload_failed(h, file_conn[h], reason)

\* after the receive loop: size test, checksum test, reply, availability notice
UploadFinish(h) ==
    /\ Quiet /\ UNCHANGED <<controlVars, lockVars, helperVars>>
    /\ file_conn[h].pc = "received"
    /\ LET c == file_conn[h]
           actual == calculate_md5(storage, inodes, c.file_path)
           seen == IF c.file_path \in DOMAIN storage
                   THEN <<inodes[storage[c.file_path]]>> ELSE <<>>
           reads == IF c.checksum # NoChecksum /\ c.file_path \in DOMAIN storage
                    THEN {[op |-> "read", path |-> c.file_path]} ELSE {}
       IN  IF c.bytes_received # c.filesize
           THEN upload_failed(h, c, "Received size mismatch")
           ELSE IF ~checksum_ok(c.checksum, actual)
           THEN /\ storage' = Unlink(storage, c.file_path)
                /\ fs_log' = fs_log \cup reads
                               \cup (IF c.file_path \in DOMAIN storage
                                     THEN {[op |-> "unlink", path |-> c.file_path]} ELSE {})
                /\ Finish(h, Failed([c EXCEPT !.on_disk = seen], "Checksum mismatch"))
                /\ UNCHANGED inodes
           ELSE /\ fs_log' = fs_log \cup reads
                /\ LET acked == [c EXCEPT !.on_disk = IF c.checksum # NoChecksum
                                                       THEN seen ELSE <<>>,
                                          !.replies = Append(c.replies,
                                              Reply("FILE_ACK_SUCCESS", "Upload successful"))]
                   IN  IF rooms_lock = 0
                       THEN Finish(h, [acked EXCEPT !.announced =
                                <<file_notification_targets(control_clients, rooms,
                                                            c.ip, c.target)>>])
                       ELSE \* _broadcast_file_notification waits for rooms_lock
                            /\ file_conn' = [file_conn EXCEPT ![h] =
                                                 [IdleConn EXCEPT !.pc = "notifying"]]
                            /\ lastFile' = <<[acked EXCEPT !.pc = "notifying"]>>
                /\ UNCHANGED <<storage, inodes>>

\* run() reads the request; _handle_download_request sends the file back
DownloadRequest(h, ip, filename) ==
    /\ Quiet /\ UNCHANGED <<controlVars, lockVars, helperVars>>
    /\ NextConn(h)
    /\ LET c0 == [file_conn[h] EXCEPT !.ip = ip, !.request = "download",
                                     !.filename = filename,
                                     !.file_path = file_path_of(filename)]
           path == file_path_of(filename)
       IN  IF ~path_accepted(path)
           THEN /\ Finish(h, Failed(c0, "Invalid filename"))
                /\ UNCHANGED fs_log
           ELSE IF path \notin DOMAIN storage
           THEN /\ Finish(h, Failed(c0, "File not found"))
                /\ UNCHANGED fs_log
           ELSE /\ Finish(h, [c0 EXCEPT !.replies = <<Reply("FILE_METADATA",
                                                  calculate_md5(storage, inodes, path))>>,
                                          !.sent = inodes[storage[path]]])
                /\ fs_log' = fs_log \cup {[op |-> "read", path |-> path]}
    /\ UNCHANGED <<storage, inodes>>

(***************************************************************************)
(* The manager calls step by step.  Each thread runs a stack of frames:    *)
(* _run_heartbeat, broadcast_user_list and stop walk over a snapshot of    *)
(* the member map, remove_client pops one member; remove_client is called  *)
(* from the first two and calls broadcast_user_list itself.  io_log notes  *)
(* for each socket operation of the step just taken whether the calling    *)
(* thread held control_clients_lock.                                       *)
(***************************************************************************)
Free == "free"
Threads == {"heartbeat", "handler", "notifier", "shutdown"}

\* a remove_client that looks the address up before it tests membership
FrameWithAddress(fn, at, todo, failed, sock) ==
    [fn |-> fn, at |-> at, todo |-> todo, failed |-> failed, sock |-> sock,
     named |-> FALSE, ip |-> IF sock = 0 THEN 0 ELSE IpOf(sock), sent |-> {}, marked |-> {}]

\* the locals of one call; a remove_client starts with username "Unknown" and
\* address ("0.0.0.0", 0).  sent, marked: the sockets a heartbeat tick has sent
\* to, and the ones it has put into to_remove
Frame(fn, at, todo, failed, sock) ==
    [fn |-> fn, at |-> at, todo |-> todo, failed |-> failed, sock |-> sock,
     named |-> FALSE, ip |-> 0, sent |-> {}, marked |-> {}]

Idle(t) == threads[t] = <<>>

\* how many manager calls run side by side
MaxCalls == 2
MayCall(t) == Idle(t) /\ Cardinality({x \in Threads : ~Idle(x)}) < MaxCalls
Top(t) == threads[t][Len(threads[t])]
SetTop(t, f) == [threads EXCEPT ![t] = [@ EXCEPT ![Len(@)] = f]]
Return(t) == [threads EXCEPT ![t] = SubSeq(@, 1, Len(@) - 1)]
Call(t, f, g) == [threads EXCEPT ![t] = Append([@ EXCEPT ![Len(@)] = f], g)]
At(t, fns, at) == ~Idle(t) /\ Top(t).fn \in fns /\ Top(t).at = at

SocketsOf(cc) == [i \in 1..Len(cc) |-> cc[i].socket]

Logged(t, fn, ops) == {[fn |-> fn, op |-> o, held |-> control_clients_lock = t] : o \in ops}

LockRest ==
    <<rooms, client_rooms, rooms_lock, pc, h_username, h_meeting, peer, reg_count,
      accept_blocked, hb_blocked, audio_buffers, udp_count, lastChat, lastVideo, lastMix,
      lastRemove, fileVars, lastFile, helperVars>>

\* the heartbeat thread wakes up for a tick
HeartbeatTick ==
    /\ MayCall("heartbeat") /\ running
    /\ threads' = [threads EXCEPT !["heartbeat"] = <<Frame("heartbeat", "lock", <<>>, <<>>, 0)>>]
    /\ io_log' = {}
    /\ UNCHANGED <<control_clients, stream_clients, closed, control_clients_lock, running, LockRest>>

\* a connection handler calls remove_client for a socket it has served
CallRemove(s) ==
    /\ MayCall("handler") /\ pc[s] # "init"
    /\ threads' = [threads EXCEPT !["handler"] = <<Frame("remove", "lock", <<>>, <<>>, s)>>]
    /\ io_log' = {}
    /\ UNCHANGED <<control_clients, stream_clients, closed, control_clients_lock, running, LockRest>>

\* the thread update_client_status starts calls broadcast_user_list
CallBroadcast ==
    /\ MayCall("notifier") /\ control_clients # <<>>
    /\ threads' = [threads EXCEPT !["notifier"] = <<Frame("broadcast", "list", <<>>, <<>>, 0)>>]
    /\ io_log' = {}
    /\ UNCHANGED <<control_clients, stream_clients, closed, control_clients_lock, running, LockRest>>

\* ConnectionManager.stop
CallStop ==
    /\ MayCall("shutdown") /\ running
    /\ running' = FALSE
    /\ threads' = [threads EXCEPT !["shutdown"] = <<Frame("stop", "lock", <<>>, <<>>, 0)>>]
    /\ io_log' = {}
    /\ UNCHANGED <<control_clients, stream_clients, closed, control_clients_lock, LockRest>>

\* get_user_list: takes the lock, copies the list, releases the lock
ListUsers(t) ==
    /\ At(t, {"broadcast"}, "list") /\ control_clients_lock = Free
    /\ threads' = SetTop(t, [Top(t) EXCEPT !.at = "lock"])
    /\ io_log' = {}
    /\ UNCHANGED <<control_clients, stream_clients, closed, control_clients_lock, running, LockRest>>

\* with self.control_clients_lock:
Acquire(t) ==
    /\ At(t, {"heartbeat", "broadcast", "stop", "remove"}, "lock")
    /\ control_clients_lock = Free
    /\ control_clients_lock' = t
    /\ threads' = SetTop(t, IF Top(t).fn = "remove" THEN [Top(t) EXCEPT !.at = "pop"]
                            ELSE [Top(t) EXCEPT !.at = "send",
                                                !.todo = SocketsOf(control_clients)])
    \* list(self.control_clients.items()) is evaluated as the with block is entered
    /\ io_log' = IF Top(t).fn = "remove" THEN {}
                 ELSE {[fn |-> Top(t).fn, op |-> "iterate", held |-> control_clients_lock' = t]}
    /\ UNCHANGED <<control_clients, stream_clients, closed, running, LockRest>>

\* one turn of the loop over the snapshot: send the packet to the next socket;
\* stop closes the socket when its send went through
SendNext(t, fails) ==
    /\ At(t, {"heartbeat", "broadcast", "stop"}, "send") /\ Top(t).todo # <<>>
    /\ LET f == Top(t)
           s == Head(f.todo)
       IN  /\ fails \in (IF s \in closed THEN {TRUE}
                         ELSE IF peer[s] = "gone" THEN BOOLEAN ELSE {FALSE})
           /\ threads' = SetTop(t, [f EXCEPT !.todo = Tail(f.todo),
                                             !.failed = IF fails /\ f.fn # "stop"
                                                        THEN Append(f.failed, s)
                                                        ELSE f.failed,
                                             !.sent = IF ~fails /\ f.fn = "heartbeat"
                                                      THEN @ \cup {s} ELSE @,
                                             !.marked = IF fails /\ f.fn = "heartbeat"
                                                        THEN @ \cup {s} ELSE @])
           /\ io_log' = Logged(t, f.fn, IF f.fn = "stop" /\ ~fails THEN {"send", "close"}
                                        ELSE {"send"})
           /\ closed' = IF f.fn = "stop" /\ ~fails THEN closed \cup {s} ELSE closed
    /\ UNCHANGED <<control_clients, stream_clients, control_clients_lock, running, LockRest>>

\* variant of Release: the loop over to_remove runs inside the with block
ReleaseAfterRemoval(t) ==
    /\ At(t, {"heartbeat", "broadcast", "stop"}, "send") /\ Top(t).todo = <<>>
    /\ IF Top(t).fn = "stop"
       THEN /\ control_clients' = <<>>
            /\ control_clients_lock' = Free
            /\ threads' = Return(t)
       ELSE /\ threads' = SetTop(t, [Top(t) EXCEPT !.at = "remove"])
            /\ UNCHANGED <<control_clients, control_clients_lock>>
    /\ io_log' = {}
    /\ UNCHANGED <<stream_clients, closed, running, LockRest>>

\* the loop is over: the with block ends (stop clears the map first)
Release(t) ==
    /\ At(t, {"heartbeat", "broadcast", "stop"}, "send") /\ Top(t).todo = <<>>
    /\ control_clients_lock' = IF control_clients_lock = t THEN Free ELSE control_clients_lock
    /\ IF Top(t).fn = "stop"
       THEN /\ control_clients' = <<>>
            /\ threads' = Return(t)
       ELSE /\ threads' = SetTop(t, [Top(t) EXCEPT !.at = "remove"])
            /\ UNCHANGED control_clients
    /\ io_log' = {}
    /\ UNCHANGED <<stream_clients, closed, running, LockRest>>

\* for sock in to_remove / disconnected: remove_client(sock)
RemoveFailed(t) ==
    /\ At(t, {"heartbeat", "broadcast"}, "remove")
    /\ LET f == Top(t)
       IN  threads' = IF f.failed = <<>> THEN Return(t)
                      ELSE Call(t, [f EXCEPT !.failed = Tail(f.failed)],
                                Frame("remove", "lock", <<>>, <<>>, Head(f.failed)))
    /\ io_log' = {}
    /\ UNCHANGED <<control_clients, stream_clients, closed, control_clients_lock, running, LockRest>>

\* remove_client inside the with block: pop the member and close its socket
PopAndClose(t) ==
    /\ At(t, {"remove"}, "pop")
    /\ LET f == Top(t)
       IN  IF InCC(control_clients, f.sock)
           THEN /\ control_clients' = PopCC(control_clients, f.sock)
                /\ closed' = closed \cup {f.sock}
                /\ io_log' = Logged(t, "remove", {"test", "pop", "close"})
                /\ threads' = SetTop(t, [f EXCEPT !.at = "unlock",
                                 !.named = InfoOf(control_clients, f.sock).username # "Unknown",
                                 !.ip = InfoOf(control_clients, f.sock).ip])
           ELSE /\ threads' = SetTop(t, [f EXCEPT !.at = "unlock"])
                /\ io_log' = Logged(t, "remove", {"test"})
                /\ UNCHANGED <<control_clients, closed>>
    /\ UNCHANGED <<stream_clients, control_clients_lock, running, LockRest>>

\* remove_client after the with block: drop the streams of the address, then
\* broadcast the lists if the member had a name
Unlock(t) ==
    /\ At(t, {"remove"}, "unlock")
    /\ control_clients_lock' = IF control_clients_lock = t THEN Free ELSE control_clients_lock
    /\ stream_clients' = DelStream(stream_clients, Top(t).ip)
    /\ threads' = IF Top(t).named
                  THEN Call(t, [Top(t) EXCEPT !.at = "room"],
                            Frame("broadcast", "list", <<>>, <<>>, 0))
                  ELSE Return(t)
    /\ io_log' = {}
    /\ UNCHANGED <<control_clients, closed, running, LockRest>>

\* broadcast_room_user_list takes rooms_lock, looks every participant up in
\* control_clients (utils.py:116-117) and sends after releasing rooms_lock
RoomList(t) ==
    /\ At(t, {"remove"}, "room") /\ rooms_lock = 0
    /\ threads' = Return(t)
    /\ io_log' = IF \E r \in DOMAIN rooms : rooms[r].participants # <<>>
                 THEN Logged(t, "room_list", {"test", "send"}) ELSE {}
    /\ UNCHANGED <<control_clients, stream_clients, closed, control_clients_lock, running,
                   LockRest>>

\* the dashboard asks for the statistics: len(self.manager.control_clients)
\* is read on the web thread, which takes no lock
GetStats ==
    /\ running /\ io_log # {[fn |-> "get_stats", op |-> "len", held |-> FALSE]}
    /\ io_log' = {[fn |-> "get_stats", op |-> "len", held |-> FALSE]}
    /\ UNCHANGED <<control_clients, stream_clients, closed, control_clients_lock, threads,
                   running, LockRest>>

(***************************************************************************)
(* shared/helpers.py: the packet codec.  A byte string is a sequence of    *)
(* runs [b, n] (n copies of byte b) kept in canonical form: no empty run,  *)
(* no two neighbouring runs of the same byte.  Two byte strings are equal  *)
(* exactly when their canonical forms are.                                 *)
(***************************************************************************)
PROTOCOL_VERSION == 1
HEADER_SIZE == 10
MAX_MESSAGE_SIZE == 1048576

CMD_HEARTBEAT == 2
CMD_DISCONNECT == 4
MSG_CHAT == 16
FILE_CHUNK == 33
SCREEN_SHARE_STOP == 51
STREAM_AUDIO == 65

Run(b, n) == [b |-> b, n |-> n]

RECURSIVE Canon(_)
Canon(x) ==
    IF x = <<>> THEN <<>>
    ELSE LET rest == Canon(Tail(x))
             h == Head(x)
         IN  IF h.n = 0 THEN rest
             ELSE IF rest # <<>> /\ Head(rest).b = h.b
                  THEN <<Run(h.b, h.n + Head(rest).n)>> \o Tail(rest)
             ELSE <<h>> \o rest

\* bytes(...) of explicit byte values
FromBytes(q) == Canon([i \in 1..Len(q) |-> Run(q[i], 1)])

\* len(x)
RECURSIVE BLen(_)
BLen(x) == IF x = <<>> THEN 0 ELSE Head(x).n + BLen(Tail(x))

\* x + y
Cat(x, y) == Canon(x \o y)

\* x[:k]
RECURSIVE Take(_, _)
Take(x, k) ==
    IF k <= 0 \/ x = <<>> THEN <<>>
    ELSE IF Head(x).n <= k THEN <<Head(x)>> \o Take(Tail(x), k - Head(x).n)
    ELSE <<Run(Head(x).b, k)>>

\* x[k:]
RECURSIVE Drop(_, _)
Drop(x, k) ==
    IF k <= 0 \/ x = <<>> THEN x
    ELSE IF Head(x).n <= k THEN Drop(Tail(x), k - Head(x).n)
    ELSE <<Run(Head(x).b, Head(x).n - k)>> \o Tail(x)

\* the byte values of a short byte string, one by one
RECURSIVE Explicit(_)
Explicit(x) ==
    IF x = <<>> THEN <<>>
    ELSE [i \in 1..Head(x).n |-> Head(x).b] \o Explicit(Tail(x))

\* variant of BigEndian: least significant byte first
LittleEndian(n, w) == [i \in 1..w |-> (n \div (256 ^ (i - 1))) % 256]

\* struct.pack('!...'): an unsigned integer of w bytes in network byte order
BigEndian(n, w) == [i \in 1..w |-> (n \div (256 ^ (w - i))) % 256]

\* struct.unpack('!...') of one unsigned integer
RECURSIVE FromBigEndian(_)
FromBigEndian(q) ==
    IF q = <<>> THEN 0 ELSE FromBigEndian(SubSeq(q, 1, Len(q) - 1)) * 256 + q[Len(q)]

\* struct.pack('!BBIHH', ...)
struct_pack(version, msg_type, payload_length, sequence_number, reserved) ==
    BigEndian(version, 1) \o BigEndian(msg_type, 1) \o BigEndian(payload_length, 4)
        \o BigEndian(sequence_number, 2) \o BigEndian(reserved, 2)

Raised(what) == [raised |-> what, value |-> <<>>]
Returns(value) == [raised |-> "", value |-> value]

pack_message(msg_type, payload) ==
    IF BLen(payload) > MAX_MESSAGE_SIZE THEN Raised("ValueError")
    ELSE Returns(Cat(FromBytes(struct_pack(PROTOCOL_VERSION, msg_type, BLen(payload), 0, 0)),
                     payload))

\* variant of version_accepted: any version byte passes
version_ignored(version) == TRUE

version_accepted(version) == version = PROTOCOL_VERSION

unpack_message(data) ==
    IF BLen(data) < HEADER_SIZE THEN Raised("ValueError")
    ELSE LET header == Explicit(Take(data, HEADER_SIZE))
             payload == Drop(data, HEADER_SIZE)
             version == header[1]
             msg_type == header[2]
             payload_length == FromBigEndian(SubSeq(header, 3, 6))
             sequence_number == FromBigEndian(SubSeq(header, 7, 8))
         IN  IF BLen(payload) # payload_length THEN Raised("ValueError")
             ELSE IF ~version_accepted(version) THEN Raised("ValueError")
             ELSE Returns(<<version, msg_type, payload_length, sequence_number, payload>>)

MessageTypes ==
    {CMD_HEARTBEAT, CMD_DISCONNECT, MSG_CHAT, FILE_CHUNK, SCREEN_SHARE_STOP, STREAM_AUDIO}

\* payloads: empty, one byte, bytes the header ends with, a run crossing 255 and
\* 65535 bytes, exactly 1 MiB, one byte more than 1 MiB
Payloads ==
    { <<>>,
      <<Run(7, 1)>>,
      <<Run(0, 2), Run(1, 1)>>,
      <<Run(0, 300)>>,
      <<Run(255, 65536), Run(0, 1)>>,
      <<Run(7, MAX_MESSAGE_SIZE)>>,
      <<Run(7, MAX_MESSAGE_SIZE + 1)>> }

\* what happens to a packet on its way
Damages == {"none", "cut header", "lose byte", "extra byte", "version", "length", "sequence"}

Damaged(p, how) ==
    CASE how = "cut header" -> Take(p, HEADER_SIZE - 1)
      [] how = "lose byte" -> Take(p, BLen(p) - 1)
      [] how = "extra byte" -> Cat(p, FromBytes(<<0>>))
      [] how = "version" -> Cat(FromBytes(<<PROTOCOL_VERSION + 1>>), Drop(p, 1))
      [] how = "length" -> Cat(Cat(Take(p, 2), FromBytes(<<1, 0, 0, 0>>)), Drop(p, 6))
      [] how = "sequence" -> Cat(Cat(Take(p, 6), FromBytes(<<0, 5>>)), Drop(p, 8))
      [] OTHER -> p

NoCodec ==
    [msg_type |-> 0, payload |-> <<>>, packed |-> <<>>, how |-> "none", data |-> <<>>,
     unpacked |-> <<>>]

CodecInputs ==
    {[NoCodec EXCEPT !.msg_type = ty, !.payload = pl] : ty \in MessageTypes, pl \in Payloads}

CodecRest == <<controlVars, fileVars, lastFile, lockVars, meta, wire, idleVars>>

\* the sender builds the packet
PackMessage ==
    /\ codec.packed = <<>>
    /\ codec' = [codec EXCEPT !.packed = <<pack_message(codec.msg_type, codec.payload)>>]
    /\ UNCHANGED CodecRest

\* the bytes that arrive: the packet, whole or damaged
Arrive(how) ==
    /\ codec.packed # <<>> /\ codec.packed[1].raised = "" /\ codec.data = <<>>
    /\ codec' = [codec EXCEPT !.how = how, !.data = <<Damaged(codec.packed[1].value, how)>>]
    /\ UNCHANGED CodecRest

\* the bytes that arrive from a peer that builds its packets itself: the
\* header states the length of the payload, whatever that is
ArriveForeign ==
    /\ codec.packed # <<>> /\ codec.packed[1].raised # "" /\ codec.data = <<>>
    /\ codec' = [codec EXCEPT
                    !.how = "foreign",
                    !.data = <<Cat(FromBytes(struct_pack(PROTOCOL_VERSION, codec.msg_type,
                                                         BLen(codec.payload), 0, 0)),
                                   codec.payload)>>]
    /\ UNCHANGED CodecRest

\* the receiver parses what arrived
UnpackMessage ==
    /\ codec.data # <<>> /\ codec.unpacked = <<>>
    /\ codec' = [codec EXCEPT !.unpacked = <<unpack_message(codec.data[1])>>]
    /\ UNCHANGED CodecRest

(***************************************************************************)
(* shared/helpers.py: the file-metadata codec.  A str is a sequence of     *)
(* code points; a short bytes object is the sequence of its byte values.   *)
(* Integers stay below 2^31.                                               *)
(***************************************************************************)
\* the str constants of the metadata object, as code points
K_filename == <<102, 105, 108, 101, 110, 97, 109, 101>>
K_filesize == <<102, 105, 108, 101, 115, 105, 122, 101>>
K_checksum == <<99, 104, 101, 99, 107, 115, 117, 109>>
K_target == <<116, 97, 114, 103, 101, 116>>
S_all == <<97, 108, 108>>

\* q[a:b]
Slice(q, a, b) == SubSeq(q, a + 1, IF b < Len(q) THEN b ELSE Len(q))

\* the concatenation of a sequence of sequences
RECURSIVE Flatten(_)
Flatten(qq) ==
    IF qq = <<>> THEN <<>>
    ELSE IF Len(qq) = 1 THEN qq[1]
    ELSE Flatten(SubSeq(qq, 1, Len(qq) \div 2)) \o Flatten(SubSeq(qq, (Len(qq) \div 2) + 1, Len(qq)))

\* one lowercase hexadecimal digit, and '%04x'
HexDigit(d) == IF d < 10 THEN 48 + d ELSE 87 + d
Hex4(n) ==
    <<HexDigit(n \div 4096), HexDigit((n \div 256) % 16), HexDigit((n \div 16) % 16),
      HexDigit(n % 16)>>

\* str(n) of an integer
RECURSIVE Decimal(_)
Decimal(n) ==
    IF n < 0 THEN <<45>> \o Decimal(0 - n)
    ELSE IF n < 10 THEN <<48 + n>>
    ELSE Decimal(n \div 10) \o <<48 + (n % 10)>>

\* variant of EscapeChar: the character as it is
RawChar(c) == <<c>>

\* json.dumps, ensure_ascii: what one character of a string becomes
EscapeChar(c) ==
    IF c = 34 THEN <<92, 34>>
    ELSE IF c = 92 THEN <<92, 92>>
    ELSE IF c = 8 THEN <<92, 98>>
    ELSE IF c = 12 THEN <<92, 102>>
    ELSE IF c = 10 THEN <<92, 110>>
    ELSE IF c = 13 THEN <<92, 114>>
    ELSE IF c = 9 THEN <<92, 116>>
    ELSE IF c >= 32 /\ c <= 126 THEN <<c>>
    ELSE IF c >= 65536
         THEN <<92, 117>> \o Hex4(55296 + ((c - 65536) \div 1024))
                  \o <<92, 117>> \o Hex4(56320 + ((c - 65536) % 1024))
    ELSE <<92, 117>> \o Hex4(c)

\* json.dumps of a str
DumpString(s) == <<34>> \o Flatten([i \in 1..Len(s) |-> EscapeChar(s[i])]) \o <<34>>

\* json.dumps of the metadata object: keys in insertion order, ', ' and ': '
json_dumps(filename, filesize, checksum, target) ==
    <<123>> \o DumpString(K_filename) \o <<58, 32>> \o DumpString(filename)
        \o <<44, 32>> \o DumpString(K_filesize) \o <<58, 32>> \o Decimal(filesize)
        \o <<44, 32>> \o DumpString(K_checksum) \o <<58, 32>> \o DumpString(checksum)
        \o <<44, 32>> \o DumpString(K_target) \o <<58, 32>> \o DumpString(target)
        \o <<125>>

\* str.encode('utf-8') of one code point
Utf8Char(c) ==
    IF c < 128 THEN <<c>>
    ELSE IF c < 2048 THEN <<192 + (c \div 64), 128 + (c % 64)>>
    ELSE IF c < 65536 THEN <<224 + (c \div 4096), 128 + ((c \div 64) % 64), 128 + (c % 64)>>
    ELSE <<240 + (c \div 262144), 128 + ((c \div 4096) % 64), 128 + ((c \div 64) % 64),
           128 + (c % 64)>>

utf8_encode(s) == Flatten([i \in 1..Len(s) |-> Utf8Char(s[i])])

Decoded(ok, value) == [ok |-> ok, value |-> value]

IsCont(b, i) == i <= Len(b) /\ b[i] >= 128 /\ b[i] <= 191

\* the length of the character a lead byte starts, 0 for a byte that starts none
CharLen(b0) ==
    IF b0 < 128 THEN 1
    ELSE IF b0 >= 194 /\ b0 <= 223 THEN 2
    ELSE IF b0 >= 224 /\ b0 <= 239 THEN 3
    ELSE IF b0 >= 240 /\ b0 <= 244 THEN 4
    ELSE 0

\* the character starting at b[i] is complete, shortest-form, no surrogate, and
\* the next character starts right after it
WellFormedAt(b, i) ==
    LET k == CharLen(b[i])
    IN  /\ k > 0
        /\ \A j \in 1..(k - 1) : IsCont(b, i + j)
        /\ ~IsCont(b, i + k)
        /\ (b[i] = 224 => b[i + 1] >= 160)
        /\ (b[i] = 237 => b[i + 1] <= 159)
        /\ (b[i] = 240 => b[i + 1] >= 144)
        /\ (b[i] = 244 => b[i + 1] <= 143)

CodePoint(b, i) ==
    LET k == CharLen(b[i])
    IN  IF k = 1 THEN b[i]
        ELSE IF k = 2 THEN (b[i] - 192) * 64 + (b[i + 1] - 128)
        ELSE IF k = 3 THEN (b[i] - 224) * 4096 + (b[i + 1] - 128) * 64 + (b[i + 2] - 128)
        ELSE (b[i] - 240) * 262144 + (b[i + 1] - 128) * 4096 + (b[i + 2] - 128) * 64
                 + (b[i + 3] - 128)

IsCodePoint(x) == x >= 0

\* bytes.decode('utf-8'), strict: ok = FALSE stands for UnicodeDecodeError
utf8_decode(b) ==
    IF \E i \in 1..Len(b) : ~IsCont(b, i) /\ ~WellFormedAt(b, i) THEN Decoded(FALSE, <<>>)
    ELSE IF IsCont(b, 1) THEN Decoded(FALSE, <<>>)
    ELSE Decoded(TRUE, SelectSeq([i \in 1..Len(b) |->
                                     IF IsCont(b, i) THEN 0 - 1 ELSE CodePoint(b, i)],
                                 IsCodePoint))

\* json.loads for the values a metadata object is made of: strings, integers and
\* objects of them.  A parse returns [ok, t, v, next]: the type and value read and
\* the position after it; ok = FALSE stands for JSONDecodeError.
Parsed(t, v, next) == [ok |-> TRUE, t |-> t, v |-> v, next |-> next]
NotJson == [ok |-> FALSE, t |-> "", v |-> <<>>, next |-> 0]

RECURSIVE SkipWs(_, _)
SkipWs(s, i) ==
    IF i <= Len(s) /\ s[i] \in {32, 9, 10, 13} THEN SkipWs(s, i + 1) ELSE i

HexVal(c) ==
    IF c >= 48 /\ c <= 57 THEN c - 48
    ELSE IF c >= 97 /\ c <= 102 THEN c - 87
    ELSE IF c >= 65 /\ c <= 70 THEN c - 55
    ELSE 0 - 1

\* the four hexadecimal digits at s[i..i+3], or -1
Hex4Val(s, i) ==
    IF i + 3 > Len(s) THEN 0 - 1
    ELSE IF \E k \in 0..3 : HexVal(s[i + k]) < 0 THEN 0 - 1
    ELSE HexVal(s[i]) * 4096 + HexVal(s[i + 1]) * 256 + HexVal(s[i + 2]) * 16
             + HexVal(s[i + 3])

\* the character a two-character escape stands for, or -1
SimpleEscape(e) ==
    IF e \in {34, 92, 47} THEN e
    ELSE IF e = 98 THEN 8
    ELSE IF e = 102 THEN 12
    ELSE IF e = 110 THEN 10
    ELSE IF e = 114 THEN 13
    ELSE IF e = 116 THEN 9
    ELSE 0 - 1

\* the body of a string literal, from the character after the opening quote
RECURSIVE ScanString(_, _, _)
ScanString(s, i, acc) ==
    IF i > Len(s) THEN NotJson
    ELSE IF s[i] = 34 THEN Parsed("str", acc, i + 1)
    ELSE IF s[i] < 32 THEN NotJson
    ELSE IF s[i] # 92 THEN ScanString(s, i + 1, Append(acc, s[i]))
    ELSE IF i + 1 > Len(s) THEN NotJson
    ELSE IF s[i + 1] = 117
         THEN LET u == Hex4Val(s, i + 2)
                  low == IF i + 7 <= Len(s) /\ s[i + 6] = 92 /\ s[i + 7] = 117
                         THEN Hex4Val(s, i + 8) ELSE 0 - 1
              IN  IF u < 0 THEN NotJson
                  ELSE IF u >= 55296 /\ u <= 56319 /\ low >= 56320 /\ low <= 57343
                       THEN ScanString(s, i + 12,
                                Append(acc, 65536 + (u - 55296) * 1024 + (low - 56320)))
                  ELSE ScanString(s, i + 6, Append(acc, u))
    ELSE IF SimpleEscape(s[i + 1]) < 0 THEN NotJson
    ELSE ScanString(s, i + 2, Append(acc, SimpleEscape(s[i + 1])))

IsDigit(s, i) == i <= Len(s) /\ s[i] >= 48 /\ s[i] <= 57

RECURSIVE ScanDigits(_, _, _)
ScanDigits(s, i, acc) ==
    IF IsDigit(s, i) THEN ScanDigits(s, i + 1, acc * 10 + (s[i] - 48))
    ELSE Parsed("int", acc, i)

\* an integer literal: '-'? (0 | [1-9][0-9]*), not followed by a fraction or exponent
ParseNumber(s, i) ==
    LET neg == i <= Len(s) /\ s[i] = 45
        j == IF neg THEN i + 1 ELSE i
        n == IF ~IsDigit(s, j) THEN NotJson
             ELSE IF s[j] = 48 THEN Parsed("int", 0, j + 1)
             ELSE ScanDigits(s, j, 0)
    IN  IF ~n.ok THEN NotJson
        ELSE IF n.next <= Len(s) /\ s[n.next] \in {46, 101, 69} THEN NotJson
        ELSE IF neg THEN Parsed("int", 0 - n.v, n.next)
        ELSE n

RECURSIVE ParseValue(_, _)
RECURSIVE ParseMembers(_, _, _)

\* after a member: ',' and another member, or '}'
AfterMember(s, members, sep) ==
    IF sep > Len(s) THEN NotJson
    ELSE IF s[sep] = 44 THEN ParseMembers(s, SkipWs(s, sep + 1), members)
    ELSE IF s[sep] = 125 THEN Parsed("obj", members, sep + 1)
    ELSE NotJson

AfterValue(s, acc, key, val) ==
    IF ~val.ok THEN NotJson
    ELSE AfterMember(s, Append(acc, <<key, val.v>>), SkipWs(s, val.next))

AfterColon(s, acc, key, colon) ==
    IF colon > Len(s) THEN NotJson
    ELSE IF s[colon] # 58 THEN NotJson
    ELSE AfterValue(s, acc, key, ParseValue(s, SkipWs(s, colon + 1)))

AfterKey(s, acc, key) ==
    IF ~key.ok THEN NotJson ELSE AfterColon(s, acc, key.v, SkipWs(s, key.next))

\* the members of an object, from the opening quote of a key: "key" : value
ParseMembers(s, i, acc) ==
    IF i > Len(s) THEN NotJson
    ELSE IF s[i] # 34 THEN NotJson
    ELSE AfterKey(s, acc, ScanString(s, i + 1, <<>>))

FirstMember(s, j) ==
    IF j > Len(s) THEN NotJson
    ELSE IF s[j] = 125 THEN Parsed("obj", <<>>, j + 1)
    ELSE ParseMembers(s, j, <<>>)

\* an object, from the character after '{': a sequence of <<key, value>> pairs
ParseObject(s, i) == FirstMember(s, SkipWs(s, i))

ParseValue(s, i) ==
    IF i > Len(s) THEN NotJson
    ELSE IF s[i] = 34 THEN ScanString(s, i + 1, <<>>)
    ELSE IF s[i] = 123 THEN ParseObject(s, i + 1)
    ELSE ParseNumber(s, i)

WholeText(s, v) ==
    IF ~v.ok THEN NotJson
    ELSE IF SkipWs(s, v.next) = Len(s) + 1 THEN v
    ELSE NotJson

\* json.loads: one value, nothing but whitespace after it
json_loads(s) == WholeText(s, ParseValue(s, SkipWs(s, 1)))

\* dict.get(key, default); of two equal keys of an object the later one counts
RECURSIVE Get(_, _, _)
Get(obj, key, default) ==
    IF obj = <<>> THEN default
    ELSE IF obj[Len(obj)][1] = key THEN obj[Len(obj)][2]
    ELSE Get(SubSeq(obj, 1, Len(obj) - 1), key, default)

Metadata(filename, filesize, checksum, target) ==
    [filename |-> filename, filesize |-> filesize, checksum |-> checksum, target |-> target]

pack_file_metadata(filename, filesize, checksum, target) ==
    utf8_encode(json_dumps(filename, filesize, checksum, target))

\* the except branch of unpack_file_metadata: length-prefixed binary fields
unpack_legacy_metadata(data) ==
    IF Len(data) < 4 THEN Raised("struct.error")
    ELSE LET filename_length == FromBigEndian(Slice(data, 0, 4))
             o1 == 4 + filename_length
             filename == utf8_decode(Slice(data, 4, o1))
             size_field == Slice(data, o1, o1 + 8)
             o2 == o1 + 8
             length_field == Slice(data, o2, o2 + 4)
             o3 == o2 + 4
             checksum == utf8_decode(Slice(data, o3, o3 + FromBigEndian(length_field)))
         IN  IF ~filename.ok THEN Raised("UnicodeDecodeError")
             ELSE IF Len(size_field) < 8 THEN Raised("struct.error")
             ELSE IF Len(length_field) < 4 THEN Raised("struct.error")
             ELSE IF ~checksum.ok THEN Raised("UnicodeDecodeError")
             ELSE Returns(Metadata(filename.value, FromBigEndian(size_field),
                                   checksum.value, S_all))

\* json.loads(data.decode('utf-8'))
loads_decoded(text) == IF text.ok THEN json_loads(text.value) ELSE NotJson

unpack_parsed(data, metadata_obj) ==
    IF ~metadata_obj.ok THEN unpack_legacy_metadata(data)
    ELSE IF metadata_obj.t # "obj" THEN Raised("AttributeError")
    ELSE Returns(Metadata(Get(metadata_obj.v, K_filename, <<>>),
                          Get(metadata_obj.v, K_filesize, 0),
                          Get(metadata_obj.v, K_checksum, <<>>),
                          Get(metadata_obj.v, K_target, S_all)))

unpack_file_metadata(data) == unpack_parsed(data, loads_decoded(utf8_decode(data)))

\* struct.pack('!Q', n) and struct.pack('!I', n) of an integer below 2^31
RECURSIVE Unsigned(_, _)
Unsigned(n, w) == IF w = 0 THEN <<>> ELSE Unsigned(n \div 256, w - 1) \o <<n % 256>>

\* the payload of a sender of the older format, as the except branch reads it:
\* !I length, filename, !Q filesize, !I length, checksum
legacy_metadata(filename, filesize, checksum) ==
    Unsigned(Len(utf8_encode(filename)), 4) \o utf8_encode(filename) \o Unsigned(filesize, 8)
        \o Unsigned(Len(utf8_encode(checksum)), 4) \o utf8_encode(checksum)

\* filenames: empty, plain, quote and backslash, a two-byte, a four-byte and a
\* control character
MetaFilenames == {<<>>, <<114>>, <<34, 92>>, <<233, 46, 114>>, <<128512>>, <<97, 10>>}
MetaFileSizes == {0, 7, MAX_FILE_SIZE, MAX_FILE_SIZE + 1}
MetaChecksums == {<<>>, <<100, 52, 49>>}
MetaTargets == {S_all, <<66, 111, 98>>, <<>>}

NoMeta ==
    [filename |-> <<>>, filesize |-> 0, checksum |-> <<>>, target |-> <<>>,
     packed |-> <<>>, legacy |-> <<>>, unpacked |-> <<>>, unpacked_legacy |-> <<>>]

MetaInputs ==
    {[NoMeta EXCEPT !.filename = fn, !.filesize = fs, !.checksum = cs, !.target = tg] :
        fn \in MetaFilenames, fs \in MetaFileSizes, cs \in MetaChecksums, tg \in MetaTargets}

MetaRest == <<controlVars, fileVars, lastFile, lockVars, codec, wire, idleVars>>

\* a sender packs the metadata
PackMetadata ==
    /\ meta.packed = <<>>
    /\ meta' = [meta EXCEPT !.packed = <<pack_file_metadata(meta.filename, meta.filesize,
                                                             meta.checksum, meta.target)>>]
    /\ UNCHANGED MetaRest

\* a sender of the older format builds its payload
LegacyMetadata ==
    /\ meta.legacy = <<>>
    /\ meta' = [meta EXCEPT !.legacy = <<legacy_metadata(meta.filename, meta.filesize,
                                                          meta.checksum)>>]
    /\ UNCHANGED MetaRest

\* the receiver unpacks what either sender sent
UnpackMetadata ==
    /\ meta.packed # <<>> /\ meta.unpacked = <<>>
    /\ meta' = [meta EXCEPT !.unpacked = <<unpack_file_metadata(meta.packed[1])>>]
    /\ UNCHANGED MetaRest

UnpackLegacy ==
    /\ meta.legacy # <<>> /\ meta.unpacked_legacy = <<>>
    /\ meta' = [meta EXCEPT !.unpacked_legacy = <<unpack_file_metadata(meta.legacy[1])>>]
    /\ UNCHANGED MetaRest

(***************************************************************************)
(* server/utils.py: reading one TCP connection.                            *)
(***************************************************************************)
BUFFER_SIZE == 65536

\* the most packets a peer sends on the connection
MaxPackets == 2

\* the packets a peer sends: a heartbeat and two chat packets
WirePackets ==
    { Explicit(pack_message(CMD_HEARTBEAT, <<>>).value),
      Explicit(pack_message(MSG_CHAT, FromBytes(<<104>>)).value),
      Explicit(pack_message(MSG_CHAT, FromBytes(<<104, 105>>)).value) }

\* sent: the packets the peer sent; unsent: the bytes of them still on their way;
\* rcvbuf: the bytes that arrived and no recv returned yet; header, data: the
\* locals of read_tcp_message and _recv_exact; returned: what read_tcp_message
\* returned; lost: the bytes a recv returned that no returned value holds;
\* state: "reading" while TCPHandler.run is in its loop, "ended" after it
NoWire ==
    [sent |-> <<>>, unsent |-> <<>>, rcvbuf |-> <<>>, header |-> <<>>, data |-> <<>>,
     returned |-> <<>>, lost |-> <<>>, state |-> "reading"]

WireInputs ==
    {[NoWire EXCEPT !.sent = q, !.unsent = Flatten(q)] :
        q \in UNION {[1..n -> WirePackets] : n \in 1..MaxPackets}}

WireRest == <<controlVars, fileVars, lastFile, lockVars, codec, meta, idleVars>>

\* the num_bytes of the _recv_exact call in progress
num_bytes(w) ==
    IF w.header = <<>> THEN HEADER_SIZE ELSE FromBigEndian(SubSeq(w.header, 3, 6))

Min(a, b) == IF a < b THEN a ELSE b

\* TCPHandler.run with the value read_tcp_message returned: a packet that
\* unpack_message rejects and a DISCONNECT end the loop
after_message(w, raw) ==
    LET got == unpack_message(FromBytes(raw))
    IN  [w EXCEPT !.header = <<>>, !.data = <<>>,
                  !.returned = Append(w.returned, raw),
                  !.state = IF got.raised # "" THEN "ended"
                            ELSE IF got.value[2] = CMD_DISCONNECT THEN "ended"
                            ELSE "reading"]

\* _recv_exact has all its bytes: the header, then the payload when there is one
after_exact(w, data) ==
    IF w.header # <<>> THEN after_message(w, w.header \o data)
    ELSE IF FromBigEndian(SubSeq(data, 3, 6)) > 0 THEN [w EXCEPT !.header = data, !.data = <<>>]
    ELSE after_message(w, data)

\* bytes of the stream arrive at the server
Deliver(k) ==
    /\ k \in 1..Len(wire.unsent)
    /\ wire' = [wire EXCEPT !.unsent = SubSeq(wire.unsent, k + 1, Len(wire.unsent)),
                            !.rcvbuf = wire.rcvbuf \o SubSeq(wire.unsent, 1, k)]
    /\ UNCHANGED WireRest

\* sock.recv returns what arrived, at most the bytes _recv_exact still asks for
Recv ==
    /\ wire.state = "reading" /\ wire.rcvbuf # <<>>
    /\ LET n == Min(Min(num_bytes(wire) - Len(wire.data), BUFFER_SIZE), Len(wire.rcvbuf))
           w == [wire EXCEPT !.rcvbuf = SubSeq(wire.rcvbuf, n + 1, Len(wire.rcvbuf))]
           data == wire.data \o SubSeq(wire.rcvbuf, 1, n)
       IN  wire' = IF Len(data) < num_bytes(wire) THEN [w EXCEPT !.data = data]
                   ELSE after_exact(w, data)
    /\ UNCHANGED WireRest

\* sock.recv raises socket.timeout: nothing arrived for SOCKET_TIMEOUT seconds.
\* _recv_exact re-raises it, read_tcp_message lets it pass, and run continues
\* with a new read_tcp_message call: the locals of the old call are gone.
RecvTimeout ==
    /\ wire.state = "reading" /\ wire.rcvbuf = <<>>
    /\ wire.header \o wire.data # <<>>
    /\ wire' = [wire EXCEPT !.header = <<>>, !.data = <<>>,
                            !.lost = wire.lost \o wire.header \o wire.data]
    /\ UNCHANGED WireRest

(***************************************************************************)
(* TCPHandler.run with a packet that unpack_message rejects.  The call is  *)
(* inside the outer try of run (tcp_handler.py:51): the ValueError is       *)
(* caught by except Exception (68-69), which is outside the loop, and the  *)
(* finally clause runs _cleanup.                                           *)
(***************************************************************************)
\* what read_tcp_message returns for the packets a peer sends: a heartbeat,
\* whole or with another version byte or sequence number
ControlPackets ==
    {Damaged(pack_message(CMD_HEARTBEAT, <<>>).value, how) : how \in {"none", "version", "sequence"}}

HandleMalformed(s, raw) ==
    /\ Quiet /\ UNCHANGED otherServices
    /\ CanRead(s)
    /\ unpack_message(raw).raised = "ValueError"
    /\ cleanup(s)

(***************************************************************************)
(* Datagrams that fail unpack_message.  Both UDP servers register the      *)
(* source address with the manager before they parse what they received    *)
(* (udp_video_server.py:42, udp_audio_server.py:76); the ValueError of the *)
(* parse is caught and the receive loop goes on.                           *)
(***************************************************************************)
STREAM_VIDEO == 64

\* what happens to a datagram on its way
DatagramDamages == {"none", "cut header", "lose byte", "version", "length"}

\* the datagrams a UDP port receives: a media packet, whole or damaged
Datagrams(msg_type) ==
    {Damaged(pack_message(msg_type, FromBytes(<<7>>)).value, how) : how \in DatagramDamages}

\* UDPVideoServer.run: recvfrom, register_stream, unpack_message raises,
\* except ValueError: continue
VideoMalformed(addr, data) ==
    /\ Quiet /\ UNCHANGED videoRest /\ Received("video", addr) /\ udp_count < MaxDatagrams
    /\ unpack_message(data).raised = "ValueError"
    /\ udp_count' = udp_count + 1
    /\ stream_clients' = register_stream(stream_clients, "video", addr)
    /\ NoCtlObs /\ NoUdpObs /\ lastRemove' = <<>>
    /\ UNCHANGED <<control_clients, closed, rooms, client_rooms, rooms_lock, pc, h_username,
                   h_meeting, peer, reg_count, accept_blocked, hb_blocked, audio_buffers>>

\* UDPAudioServer.run: recvfrom, register_stream, _handle_incoming_chunk
\* returns at except ValueError
AudioMalformed(addr, data) ==
    /\ Quiet /\ UNCHANGED audioRest /\ udp_count < MaxDatagrams
    /\ heard' = [heard EXCEPT ![addr] = now] /\ Received("audio", addr)
    /\ UNCHANGED last_seen
    /\ unpack_message(data).raised = "ValueError"
    /\ udp_count' = udp_count + 1
    /\ stream_clients' = register_stream(stream_clients, "audio", addr)
    /\ NoCtlObs /\ NoUdpObs /\ lastRemove' = <<>>
    /\ UNCHANGED <<control_clients, closed, rooms, client_rooms, rooms_lock, pc, h_username,
                   h_meeting, peer, reg_count, accept_blocked, hb_blocked, audio_buffers>>

(***************************************************************************)
(* The control plane.                                                      *)
(***************************************************************************)
InitServers ==
    /\ now = 0 /\ last_seen = EmptyMap /\ removed = {} /\ heard = [a \in Addrs |-> 0]
    /\ recent = [k \in {"video", "audio"} |-> [ip \in IPs |-> 0]]
    /\ control_clients = <<>>
    /\ stream_clients = <<>>
    /\ closed = {}
    /\ rooms = EmptyMap
    /\ client_rooms = EmptyMap
    /\ rooms_lock = 0
    /\ pc = [s \in Sockets |-> "init"]
    /\ h_username = [s \in Sockets |-> "Unknown"]
    /\ h_meeting = [s \in Sockets |-> "default"]
    /\ peer = [s \in Sockets |-> "up"]
    /\ reg_count = 0
    /\ accept_blocked = FALSE
    /\ hb_blocked = FALSE
    /\ audio_buffers = EmptyMap
    /\ udp_count = 0
    /\ lastChat = NoChat
    /\ lastVideo = <<>>
    /\ lastMix = <<>>
    /\ lastRemove = <<>>
    /\ storage = EmptyMap
    /\ inodes = EmptyMap
    /\ file_conn = [h \in FileConns |-> IdleConn]
    /\ fs_log = {}
    /\ lastFile = <<>>
    /\ control_clients_lock = Free
    /\ threads = [t \in Threads |-> <<>>]
    /\ io_log = {}
    /\ running = TRUE

Init == InitServers /\ codec = NoCodec /\ meta = NoMeta /\ wire = NoWire

Next ==
    \/ \E s \in Sockets : Accept(s)
    \/ \E s \in Sockets, u \in Usernames, m \in RegisterRooms : HandleRegister(s, u, m)
    \/ \E s \in Sockets, t \in ChatTargets : HandleChat(s, t)
    \/ \E s \in Sockets : PeerGone(s)
    \/ \E s \in Sockets : Cleanup(s)
    \/ Heartbeat
    \/ Forget

Spec == Init /\ [][Next]_vars

(***************************************************************************)
(* The media plane.  Clients connect and register over TCP under one name; *)
(* the UDP video router, the UDP audio mixer and the stream registry are   *)
(* each driven together with that control traffic.                         *)
(***************************************************************************)
MediaNames == {"Alice"}
MediaRooms == {"team"}

Join ==
    \/ \E s \in Sockets : Accept(s)
    \/ \E s \in Sockets, u \in MediaNames, m \in MediaRooms : HandleRegister(s, u, m)

VideoNext ==
    \/ Join
    \/ \E a \in Addrs, d \in Frames : VideoFrame(a, d)
    \/ \E a \in Addrs, u \in MediaNames, r \in AllRooms : VideoRegister(a, u, r)
    \/ Forget

VideoSpec == Init /\ [][VideoNext]_vars

AudioNext ==
    \/ Join
    \/ \E a \in Addrs, ok \in BOOLEAN : AudioChunk(a, ok)
    \/ MixTick
    \/ Forget

AudioSpec == Init /\ [][AudioNext]_vars

\* connections come and go while UDP REGISTER datagrams fill the stream registry
StreamNext ==
    \/ Join
    \/ \E s \in Sockets : PeerGone(s)
    \/ \E s \in Sockets : Cleanup(s)
    \/ Heartbeat
    \/ \E a \in Addrs, u \in MediaNames, r \in AllRooms : VideoRegister(a, u, r)
    \/ \E a \in Addrs, u \in MediaNames, r \in AllRooms : AudioRegister(a, u, r)

StreamSpec == Init /\ [][StreamNext]_vars

\* members register again and again, with a meeting_id or without one (read as
\* 'default', tcp_handler.py:78), while UDP REGISTER datagrams touch them by IP
RoomNext ==
    \/ \E s \in Sockets : Accept(s)
    \/ \E s \in Sockets, u \in MediaNames, m \in AllRooms : HandleRegister(s, u, m)
    \/ \E a \in Addrs, u \in MediaNames, r \in AllRooms : VideoRegister(a, u, r)
    \/ \E a \in Addrs, u \in MediaNames, r \in AllRooms : AudioRegister(a, u, r)

RoomSpec == Init /\ [][RoomNext]_vars

\* the UDP ports receive media packets, some of them damaged on their way
DatagramNext ==
    \/ Join
    \/ \E a \in Addrs, d \in Frames : VideoFrame(a, d)
    \/ \E a \in Addrs, ok \in BOOLEAN : AudioChunk(a, ok)
    \/ \E a \in Addrs, d \in Datagrams(STREAM_VIDEO) : VideoMalformed(a, d)
    \/ \E a \in Addrs, d \in Datagrams(STREAM_AUDIO) : AudioMalformed(a, d)
    \/ Forget

DatagramSpec == Init /\ [][DatagramNext]_vars

\* members join and send packets, some with a version the server does not speak
PacketNext ==
    \/ Join
    \/ \E s \in Sockets, raw \in ControlPackets : HandleMalformed(s, raw)
    \/ \E s \in Sockets, t \in {"Everyone"} : HandleChat(s, t)
    \/ Forget

PacketSpec == Init /\ [][PacketNext]_vars

\* a burst of audio datagrams longer than a jitter buffer, with mix ticks in between
JitterNext ==
    \/ \E a \in BurstSources : AudioBurst(a)
    \/ MixTick
    \/ Forget

JitterSpec == Init /\ [][JitterNext]_vars

\* audio sources send chunks and REGISTER datagrams while time passes and the
\* mixer thread, which runs for as long as the server does, cleans up
IdleNext ==
    \/ \E a \in BurstSources : AudioChunk(a, TRUE)
    \/ \E a \in BurstSources, u \in MediaNames, r \in MediaRooms : AudioRegister(a, u, r)
    \/ Elapse
    \/ CleanupScan
    \/ CleanupDrop

IdleSpec == Init /\ [][IdleNext]_vars /\ WF_vars(CleanupScan) /\ WF_vars(CleanupDrop)

\* what ends an upload in the middle of its transfer
AbortReasons == {"Connection lost during file transfer", "Unexpected message type"}

\* file-transfer connections are served concurrently, from one address
FileNext ==
    \/ \E h \in FileConns, fn \in Filenames, n \in FileSizes, k \in Checksums :
          UploadRequest(h, 1, fn, n, k, "all")
    \/ \E h \in FileConns, d \in Chunks, through \in BOOLEAN : UploadChunk(h, d, through)
    \/ \E h \in FileConns, reason \in AbortReasons : UploadAbort(h, reason)
    \/ \E h \in FileConns : UploadFinish(h)
    \/ \E h \in FileConns, fn \in Filenames : DownloadRequest(h, 1, fn)
    \/ Forget

FileSpec == Init /\ [][FileNext]_vars

\* members join one room while one upload of a well-formed request is served
NoticeNames == {"Alice", "Bob"}

NoticeNext ==
    \/ \E s \in Sockets : Accept(s)
    \/ \E s \in Sockets, u \in NoticeNames, m \in MediaRooms : HandleRegister(s, u, m)
    \/ \E ip \in IPs, n \in {1, 2}, k \in Checksums, tg \in FileTargets :
          UploadRequest(1, ip, <<"r">>, n, k, tg)
    \/ \E d \in Chunks : UploadChunk(1, d, TRUE)
    \/ UploadAbort(1, "Unexpected message type")
    \/ UploadFinish(1)
    \/ Forget

NoticeSpec == Init /\ [][NoticeNext]_vars

LockSockets == 1..(NumSockets - 1)
\* add_client and update_client_status take control_clients_lock themselves
LockFree == control_clients_lock = Free

\* members join and are lost while the manager calls run step by step
LockNext ==
    \/ \E s \in LockSockets : LockFree /\ Accept(s)
    \/ \E s \in LockSockets, u \in MediaNames, m \in MediaRooms :
          LockFree /\ HandleRegister(s, u, m)
    \/ \E s \in LockSockets : PeerGone(s)
    \/ HeartbeatTick
    \/ \E s \in LockSockets : CallRemove(s)
    \/ CallBroadcast
    \/ CallStop
    \/ \E t \in Threads : ListUsers(t)
    \/ \E t \in Threads : Acquire(t)
    \/ \E t \in Threads, fails \in BOOLEAN : SendNext(t, fails)
    \/ \E t \in Threads : Release(t)
    \/ \E t \in Threads : RemoveFailed(t)
    \/ \E t \in Threads : PopAndClose(t)
    \/ \E t \in Threads : Unlock(t)
    \/ \E t \in Threads : RoomList(t)
    \/ GetStats

LockSpec == Init /\ [][LockNext]_vars

\* remove_client called from the handler and the heartbeat for members that
\* have stream registrations
RemoveNext ==
    \/ \E s \in LockSockets : LockFree /\ Accept(s)
    \/ \E s \in LockSockets, u \in MediaNames, m \in MediaRooms :
          LockFree /\ HandleRegister(s, u, m)
    \/ \E a \in BurstSources, u \in MediaNames, m \in MediaRooms :
          LockFree /\ VideoRegister(a, u, m)
    \/ \E s \in LockSockets : PeerGone(s)
    \/ HeartbeatTick
    \/ \E s \in LockSockets : CallRemove(s)
    \/ \E t \in Threads : ListUsers(t)
    \/ \E t \in Threads : Acquire(t)
    \/ \E t \in Threads, fails \in BOOLEAN : SendNext(t, fails)
    \/ \E t \in Threads : Release(t)
    \/ \E t \in Threads : RemoveFailed(t)
    \/ \E t \in Threads : PopAndClose(t)
    \/ \E t \in Threads : Unlock(t)
    \/ \E t \in Threads : RoomList(t)

RemoveSpec == Init /\ [][RemoveNext]_vars

\* the metadata codec is given a filename, a file size, a checksum and a target
MetaInit == InitServers /\ codec = NoCodec /\ meta \in MetaInputs /\ wire = NoWire

MetaNext == PackMetadata \/ LegacyMetadata \/ UnpackMetadata \/ UnpackLegacy

MetaSpec == MetaInit /\ [][MetaNext]_vars

\* a peer has sent its packets; none of their bytes has arrived
WireInit == InitServers /\ codec = NoCodec /\ meta = NoMeta /\ wire \in WireInputs

WireNext ==
    \/ \E k \in 1..(HEADER_SIZE + 2) : Deliver(k)
    \/ Recv
    \/ RecvTimeout

WireSpec == WireInit /\ [][WireNext]_vars

\* the codec is given a message type and a payload
CodecInit == InitServers /\ codec \in CodecInputs /\ meta = NoMeta /\ wire = NoWire

CodecNext ==
    \/ PackMessage
    \/ \E how \in Damages : Arrive(how)
    \/ ArriveForeign
    \/ UnpackMessage

CodecSpec == CodecInit /\ [][CodecNext]_vars

\* a handler thread whose read loop has ended is scheduled and runs _cleanup
LifeSpec == Init /\ [][StreamNext]_vars /\ \A s \in Sockets : WF_vars(Cleanup(s))

(***************************************************************************)
(* Properties.                                                             *)
(***************************************************************************)
\* the sockets a chat packet was sent to, delivered or not
ChatAttempts == lastChat.sent \o lastChat.failed

\* C1  Chat broadcast exactness: a CHAT whose target is empty, 'all' or
\* 'everyone' (any case) is sent exactly once to every other socket that is
\* currently a member of the sender's room, to no socket that is not
\* currently a member of that room, and never back to the sender.
C1_BroadcastExact ==
    lastChat.kind = "broadcast" =>
        /\ \A x \in CurrentMembers(lastChat.room) \ {lastChat.sender} :
               Count(ChatAttempts, x) = 1
        /\ \A x \in Range(ChatAttempts) : x \in CurrentMembers(lastChat.room)
        /\ lastChat.sender \notin Range(ChatAttempts)

\* the folded form under which the chat router compares usernames
Folded(name) == lower(strip(name))

\* C2  Cross-room unicast isolation: when member A, currently in room R,
\* sends a unicast CHAT whose target is the username of a member C that is
\* currently in another room (and of no current member of R), nothing is
\* delivered to C's socket and A gets an 'error'-typed chat packet.
C2_UnicastIsolation ==
    \A c \in DOMAIN client_rooms :
        (/\ lastChat.kind \in {"unicast", "miss"}
         /\ lastChat.sender \in CurrentMembers(lastChat.room)
         /\ c # lastChat.sender
         /\ client_rooms[c] # lastChat.room
         /\ Folded(h_username[c]) = Folded(lastChat.target)
         /\ \A b \in CurrentMembers(lastChat.room) :
                Folded(h_username[b]) # Folded(lastChat.target))
        => /\ c \notin Range(ChatAttempts)
           /\ lastChat.reply = <<"error">>

\* C6  Username uniqueness: no room's participant map holds, for two
\* different sockets, two usernames that are equal when case is ignored.
C6_UsernameUnique ==
    \A r \in DOMAIN rooms :
        \A i, j \in 1..Len(rooms[r].participants) :
            LET pi == rooms[r].participants[i]
                pj == rooms[r].participants[j]
            IN  (i # j /\ pi.sock # pj.sock) => lower(pi.name) # lower(pj.name)

\* the rooms whose client list, resp. participant map, holds socket s
RoomsListing(s) == {r \in DOMAIN rooms : s \in Range(rooms[r].clients)}
RoomsNaming(s) ==
    {r \in DOMAIN rooms : \E i \in 1..Len(rooms[r].participants) :
                              rooms[r].participants[i].sock = s}

\* C7  Single-room membership: every connected socket is in the client list
\* of at most one room and in the participant map of at most one room.
C7_SingleRoom ==
    \A s \in Sockets :
        InCC(control_clients, s) =>
            /\ Cardinality(RoomsListing(s)) <= 1
            /\ Cardinality(RoomsNaming(s)) <= 1

\* the sockets the room directory still associates with room r
RoomSockets(r) ==
    CurrentMembers(r) \cup (IF r \in DOMAIN rooms THEN Range(rooms[r].clients) ELSE {})

\* C8  Room lifecycle: once the connection of every member a room still has
\* has ended, the room is eventually removed from the room directory.
C8_RoomRemoved ==
    \A r \in MeetingIds :
        (r \in DOMAIN rooms /\ \A s \in RoomSockets(r) : peer[s] = "gone")
            ~> (r \notin DOMAIN rooms)

\* C9  Reader termination: once the peer of a connection has closed it or
\* sent DISCONNECT, the handler thread eventually has finished its cleanup
\* and returned.
C9_ReaderTerminates ==
    \A s \in Sockets : (pc[s] = "read" /\ peer[s] = "gone") ~> (pc[s] = "done")

\* the room the mixer and the video router take an address to be in
RoomOfAddr(a) == get_room_by_ip(control_clients, a[1])

FramesInto(frames, r) ==
    {frames[i] : i \in {k \in 1..Len(frames) : RoomOfAddr(frames[k].to) = r}}

\* C3  Audio cross-room isolation: no frame holds a chunk of a source whose
\* IP maps to another room than the listener's, and the frames sent to the
\* listeners of a room are the frames the same tick sends them when the
\* chunks of the sources of all other rooms are taken away.
C3_AudioIsolation ==
    lastMix # <<>> =>
        LET m == lastMix[1]
        IN  /\ \A i \in 1..Len(m.frames) : \A c \in m.frames[i].mix :
                   RoomOfAddr(c.src) = RoomOfAddr(m.frames[i].to)
            /\ \A r \in AllRooms :
                   FramesInto(m.frames, r) =
                   FramesInto(mixer_frames(control_clients, m.listeners,
                                           {c \in m.chunks : RoomOfAddr(c.src) = r}), r)

\* a listener got a frame in a tick that also popped a chunk of another room
C3_Witness ==
    /\ lastMix # <<>>
    /\ \E i \in 1..Len(lastMix[1].frames) : \E c \in lastMix[1].chunks :
           RoomOfAddr(c.src) # RoomOfAddr(lastMix[1].frames[i].to)

\* C4  Audio self-exclusion by IP: the frame sent to a listener never
\* includes a popped chunk whose source IP is the listener's IP, whatever
\* the source's port.
C4_SelfExcludedByIp ==
    lastMix # <<>> =>
        \A i \in 1..Len(lastMix[1].frames) : \A c \in lastMix[1].frames[i].mix :
            c.src[1] # lastMix[1].frames[i].to[1]

\* the registered video listeners the datagram of lastVideo is due to
VideoDue(v) ==
    {a \in v.registered :
        /\ a # v.src
        /\ \E i \in 1..Len(control_clients) :
               /\ control_clients[i].ip = a[1]
               /\ control_clients[i].room = RoomOfAddr(v.src)}

\* C5  Video fan-out: a STREAM_VIDEO datagram from address X whose member is
\* in room R is sent, unmodified, once to every registered video listener
\* whose IP belongs to a member of R, except X, and to nobody else.
C5_VideoFanOut ==
    (/\ lastVideo # <<>>
     /\ \E i \in 1..Len(control_clients) : control_clients[i].ip = lastVideo[1].src[1])
    => LET v == lastVideo[1]
       IN  /\ \A a \in VideoDue(v) :
                  Cardinality({i \in 1..Len(v.sends) : v.sends[i].to = a}) = 1
           /\ \A i \in 1..Len(v.sends) :
                  v.sends[i].to \in VideoDue(v) /\ v.sends[i].data = v.data

\* a member's frame went to another member of its room while the sender
\* itself is a registered video listener
C5_Witness ==
    /\ lastVideo # <<>>
    /\ \E i \in 1..Len(control_clients) : control_clients[i].ip = lastVideo[1].src[1]
    /\ lastVideo[1].sends # <<>>
    /\ lastVideo[1].src \in lastVideo[1].registered

Reachable(s) == InCC(control_clients, s) /\ peer[s] = "up"

\* C11  Case-insensitive unicast: when a reachable member is registered in
\* the sender's room under username U and a CHAT names a target equal to U
\* up to letter case, the chat goes once to that member's socket and to no
\* other, and the sender gets a 'delivery_confirm' with sent 1, failed 0.
C11_UnicastIgnoresCase ==
    \A c \in CurrentMembers(lastChat.room) :
        (/\ lastChat.kind \in {"unicast", "miss"}
         /\ lastChat.sender \in CurrentMembers(lastChat.room)
         /\ Reachable(c)
         /\ lower(h_username[c]) = lower(lastChat.target))
        => /\ lastChat.sent = <<c>>
           /\ lastChat.failed = <<>>
           /\ lastChat.reply = <<"delivery_confirm">>

\* the target of the last CHAT names nobody in the participant map of the room
NamesNobody ==
    /\ lastChat.kind \in {"unicast", "miss", "broadcast"}
    /\ ~(lastChat.target = "" \/ lower(lastChat.target) \in {"all", "everyone"})
    /\ \A i \in 1..Len(rooms[lastChat.room].participants) :
           lower(rooms[lastChat.room].participants[i].name) # lower(lastChat.target)

C13_AlwaysConfirmed ==
    lastChat.kind \in {"broadcast", "unicast", "miss"} =>
        lastChat.reply = <<"delivery_confirm">>

\* an upload that has ended after every declared byte arrived, checksum declared
Complete(f) ==
    /\ f.request = "upload"
    /\ f.inode # 0
    /\ f.checksum # NoChecksum
    /\ f.bytes_received = f.filesize

Acked(f, type) == Len(f.replies) = 1 /\ f.replies[1].type = type

\* C14: an upload that declares a checksum H and delivers exactly the declared
\* number of bytes is answered FILE_ACK_SUCCESS if and only if the MD5 of the
\* bytes in the file on disk equals H, and FILE_ACK_FAILURE otherwise.
C14_UploadAck ==
    \A i \in 1..Len(lastFile) :
        Complete(lastFile[i]) =>
            LET f == lastFile[i]
                matches == f.on_disk # <<>> /\ Md5(f.on_disk[1]) = f.checksum
            IN  /\ matches => Acked(f, "FILE_ACK_SUCCESS")
                /\ ~matches => Acked(f, "FILE_ACK_FAILURE")

\* both outcomes of the checksum test have happened, one connection after the other
C14_Witness ==
    /\ lastFile # <<>>
    /\ Complete(lastFile[1])
    /\ Acked(lastFile[1], "FILE_ACK_SUCCESS")
    /\ lastFile[1].on_disk = <<<<"a", "b">>>>
    /\ file_conn[2].pc = "done"

\* the MD5 of the bytes the upload left in its file differs from the declared one
Mismatch(f) == Complete(f) /\ Md5(inodes[f.inode]) # f.checksum

\* C15: on a checksum mismatch the reply is FILE_ACK_FAILURE 'Checksum mismatch',
\* the file is gone from storage and no file_announce is sent; a file_announce
\* is only sent for an upload that was answered FILE_ACK_SUCCESS.
C15_MismatchOutcome ==
    \A i \in 1..Len(lastFile) :
        LET f == lastFile[i]
        IN  /\ Mismatch(f) =>
                  /\ f.replies = <<Reply("FILE_ACK_FAILURE", "Checksum mismatch")>>
                  /\ f.file_path \notin DOMAIN storage
                  /\ f.announced = <<>>
            /\ f.announced # <<>> => Acked(f, "FILE_ACK_SUCCESS")

\* a mismatching upload from a member whose room has somebody to notify
C15_Witness ==
    /\ lastFile # <<>>
    /\ Mismatch(lastFile[1])
    /\ file_notification_targets(control_clients, rooms, lastFile[1].ip,
                                 lastFile[1].target) # <<>>

\* the path names a file below the storage root
Inside(path) == Len(path) > Len(storage_dir) /\ startswith(path, storage_dir)

\* C16: a request whose filename resolves outside the storage root is answered
\* FILE_ACK_FAILURE, and no file outside the root is created, truncated,
\* written, read or deleted.
C16_PathSafety ==
    /\ \A e \in fs_log : Inside(e.path)
    /\ \A i \in 1..Len(lastFile) :
           (lastFile[i].filename # <<>> /\ ~Inside(file_path_of(lastFile[i].filename)))
               => Acked(lastFile[i], "FILE_ACK_FAILURE")

(***************************************************************************)
(* The USER_LIST packets.  sock is carried along with each listed entry to *)
(* tell which member the entry was built from; it is not in the payload.   *)
(***************************************************************************)
get_user_list(cc) ==
    [i \in 1..Len(cc) |->
        [username |-> cc[i].username, ip |-> cc[i].ip, room |-> cc[i].room,
         sock |-> cc[i].socket]]

\* utils.broadcast_user_list: the payload and the sockets it is sent to
user_list_packet(cc) ==
    LET user_list == get_user_list(cc)
    IN  [payload |-> Filter(user_list, [i \in 1..Len(user_list) |->
                                           user_list[i].username # "Unknown"]),
         to |-> [i \in 1..Len(cc) |-> cc[i].socket]]

\* utils.broadcast_room_user_list: the payload and the sockets it is sent to
room_user_list_packet(cc, rms, room_id) ==
    LET participants == rms[room_id].participants
        known == Filter(participants, [i \in 1..Len(participants) |->
                                          InCC(cc, participants[i].sock)])
    IN  [payload |-> [i \in 1..Len(known) |->
                         [username |-> known[i].name, ip |-> InfoOf(cc, known[i].sock).ip,
                          room |-> room_id, sock |-> known[i].sock]],
         to |-> [i \in 1..Len(participants) |-> participants[i].sock]]

GlobalScoped(cc) ==
    LET p == user_list_packet(cc)
    IN  /\ \A i \in 1..Len(p.payload) : p.payload[i].username # "Unknown"
        /\ Range(p.to) = {cc[i].socket : i \in 1..Len(cc)}

RoomScoped(cc, rms, crooms, room_id) ==
    LET p == room_user_list_packet(cc, rms, room_id)
        members == {x \in DOMAIN crooms : crooms[x] = room_id}
    IN  /\ \A i \in 1..Len(p.payload) : p.payload[i].sock \in members
        /\ Range(p.to) \subseteq members

\* C17: the global USER_LIST lists no 'Unknown' member and goes to every socket
\* of the registry; the per-room USER_LIST sent after a REGISTER into room m
\* lists only current members of m and goes only to current members of m.
C17_ListScoping ==
    [][\A s \in Sockets, u \in Usernames, m \in RegisterRooms :
           (HandleRegister(s, u, m) /\ rooms_lock = 0)
               => /\ GlobalScoped(control_clients')
                  /\ RoomScoped(control_clients', rooms', client_rooms', m)]_vars

\* C18: no thread sends on, receives from or closes a socket while it holds
\* control_clients_lock (heartbeat loop, global user-list broadcast,
\* remove_client, shutdown).
C18_NoIoUnderLock == \A e \in io_log : e.op \in {"send", "close"} => ~e.held

\* a packet was built from a payload of at most 1 MiB, arrived whole and was parsed
RoundTrip ==
    /\ BLen(codec.payload) <= MAX_MESSAGE_SIZE
    /\ codec.packed # <<>>
    /\ codec.how = "none" /\ codec.unpacked # <<>>

\* C19: unpack_message(pack_message(type, payload)) is (PROTOCOL_VERSION, type,
\* len(payload), 0, payload) and the packet has 10 + len(payload) bytes, for
\* every message type and every payload of 0 to 1 MiB.
C19_FramingRoundTrip ==
    /\ (codec.packed # <<>> /\ BLen(codec.payload) <= MAX_MESSAGE_SIZE) =>
           /\ codec.packed[1].raised = ""
           /\ BLen(codec.packed[1].value) = 10 + BLen(codec.payload)
    /\ RoundTrip =>
           codec.unpacked[1] = Returns(<<PROTOCOL_VERSION, codec.msg_type,
                                         BLen(codec.payload), 0, codec.payload>>)

\* the round trip of the screen-share stop packet and of a 1 MiB payload
C19_Witness ==
    /\ RoundTrip
    /\ \/ codec.msg_type = SCREEN_SHARE_STOP /\ codec.payload = <<>>
       \/ BLen(codec.payload) = MAX_MESSAGE_SIZE
    /\ codec.unpacked[1].raised = ""

\* the input is shorter than the header, or its payload is not as long as the
\* header says, or its version byte is not PROTOCOL_VERSION
Malformed(data) ==
    \/ BLen(data) < 10
    \/ BLen(data) - 10 # FromBigEndian(SubSeq(Explicit(Take(data, 10)), 3, 6))
    \/ Explicit(Take(data, 1)) # <<PROTOCOL_VERSION>>

\* C20: unpack_message raises ValueError for every malformed input and returns
\* a tuple for every other input.
C20_MalformedRejected ==
    codec.unpacked # <<>> =>
        /\ Malformed(codec.data[1]) => codec.unpacked[1] = Raised("ValueError")
        /\ ~Malformed(codec.data[1]) =>
               /\ codec.unpacked[1].raised = ""
               /\ Len(codec.unpacked[1].value) = 5

\* a packet that is well-formed but for its version byte has been rejected
C20_Witness ==
    /\ codec.unpacked # <<>>
    /\ codec.how = "version"
    /\ codec.unpacked[1] = Raised("ValueError")


\* C21: unpacking what pack_file_metadata packed returns the filename, filesize,
\* checksum and target that were packed, and unpacking a length-prefixed payload
\* of the older format returns its filename, filesize and checksum with target 'all'
C21_MetadataRoundTrip ==
    /\ meta.unpacked # <<>> =>
           meta.unpacked[1]
               = Returns(Metadata(meta.filename, meta.filesize, meta.checksum, meta.target))
    /\ meta.unpacked_legacy # <<>> =>
           meta.unpacked_legacy[1]
               = Returns(Metadata(meta.filename, meta.filesize, meta.checksum, S_all))

\* both payloads of a filename with a quote and a backslash, sent to Bob, were unpacked
C21_Witness ==
    /\ meta.unpacked # <<>> /\ meta.unpacked_legacy # <<>>
    /\ meta.filename = <<34, 92>> /\ meta.filesize = MAX_FILE_SIZE
    /\ meta.target = <<66, 111, 98>>
    /\ meta.unpacked[1].raised = "" /\ meta.unpacked_legacy[1].raised = ""

\* C22  Deadlock freedom: whenever a thread holds rooms_lock, the lock is
\* eventually released, so that no thread waits for it for ever.
C22_RoomsLockReleased == (rooms_lock # 0) ~> (rooms_lock = 0)

IsPrefix(p, q) == Len(p) <= Len(q) /\ SubSeq(q, 1, Len(p)) = p

\* C23  TCP framing stays aligned across timeouts: what read_tcp_message
\* returned are the first packets the peer sent, in sending order; no byte a
\* recv returned was dropped by a timeout; the handler is still in its loop.
C23_FramingAligned ==
    /\ IsPrefix(wire.returned, wire.sent)
    /\ wire.lost = <<>>
    /\ wire.state = "reading"

\* C24  A chat send failure removes the recipient: when the handling of a chat
\* packet returns, no recipient whose send failed is in the registry (they are
\* the ones counted in 'failed'), and a broadcast has reached for no socket
\* that had been removed from the registry before.
C24_FailedRecipientRemoved ==
    [][(lastChat = NoChat /\ lastChat'.kind \in {"broadcast", "unicast"}) =>
          /\ \A t \in Range(lastChat'.failed) : ~InCC(control_clients', t)
          /\ lastChat'.kind = "broadcast" =>
                 \A t \in Range(ChatAttempts') : InCC(control_clients, t)]_vars

\* a heartbeat tick ends: _run_heartbeat has gone through to_remove
TickEnds ==
    /\ Len(threads["heartbeat"]) = 1 /\ threads["heartbeat"][1].fn = "heartbeat"
    /\ threads'["heartbeat"] = <<>>

\* the heartbeat loop calls remove_client
TickRemoves ==
    /\ Len(threads["heartbeat"]) = 1 /\ threads["heartbeat"][1].fn = "heartbeat"
    /\ Len(threads'["heartbeat"]) = 2

FailedUpload(f) ==
    /\ f.request = "upload" /\ f.pc = "done"
    /\ f.inode # 0
    /\ ~Acked(f, "FILE_ACK_SUCCESS")

\* C26  Failed uploads leave no partial file: an upload that ends without
\* FILE_ACK_SUCCESS after its file was opened is answered FILE_ACK_FAILURE,
\* and no file of its name is in storage when it has ended.
C26_NoPartialFile ==
    \A i \in 1..Len(lastFile) :
        FailedUpload(lastFile[i]) =>
            /\ Acked(lastFile[i], "FILE_ACK_FAILURE")
            /\ lastFile[i].file_path \notin DOMAIN storage

\* an upload lost its connection after bytes of it had reached the disk, and
\* its file has been deleted
C26_Witness ==
    /\ lastFile # <<>> /\ FailedUpload(lastFile[1])
    /\ lastFile[1].replies[1].reason = "Connection lost during file transfer"
    /\ lastFile[1].bytes_received > 0
    /\ inodes[lastFile[1].inode] # <<>>
    /\ [op |-> "unlink", path |-> lastFile[1].file_path] \in fs_log
    /\ lastFile[1].file_path \notin DOMAIN storage

\* the members that connected from the address an upload came from
Uploaders(f) == {control_clients[i].socket : i \in {k \in 1..Len(control_clients) :
                                                      control_clients[k].ip = f.ip}}

\* the sockets of the participants of room m
ParticipantsOf(m) ==
    IF m \in DOMAIN rooms
    THEN {rooms[m].participants[i].sock : i \in 1..Len(rooms[m].participants)}
    ELSE {}

\* the participants of room m whose name is the target but for case
NamedIn(m, target) ==
    IF m \in DOMAIN rooms
    THEN {rooms[m].participants[i].sock :
             i \in {k \in 1..Len(rooms[m].participants) :
                       lower(rooms[m].participants[k].name) = lower(target)}}
    ELSE {}

\* the routing of the notice of upload f, whose uploader is member u
NoticeRouted(f, u) ==
    LET m == InfoOf(control_clients, u).room
        to == Range(f.announced[1])
    IN  /\ f.target = "all" => to = ParticipantsOf(m) \ {u}
        /\ (f.target # "all" /\ NamedIn(m, f.target) \ {u} # {}) =>
               to = NamedIn(m, f.target)
        /\ \A t \in to : t \in DOMAIN client_rooms /\ client_rooms[t] = m
        /\ (f.target # "all" /\ NamedIn(m, f.target) = {}) =>
               /\ to = {}
               /\ \E k \in 1..Len(f.replies) : f.replies[k].type # "FILE_ACK_SUCCESS"

\* C27  File availability notice routing: after a successful upload the
\* file_announce packet goes, for target 'all', to every participant of the
\* uploader's room but the uploader, for a username target to exactly the
\* participant of that room whose name matches but for case, never to a
\* member of another room; an unknown target gets the uploader an error.
C27_NoticeRouting ==
    \A i \in 1..Len(lastFile) :
        (lastFile[i].request = "upload" /\ lastFile[i].announced # <<>>) =>
            \A u \in Uploaders(lastFile[i]) :
                Uploaders(lastFile[i]) = {u} => NoticeRouted(lastFile[i], u)

\* the registry room of connection s, for a connection the registry holds
RoomOf(cc, s) == InfoOf(cc, s).room

\* C28  Room downgrade is ignored: a member whose registry room is not
\* 'default' keeps that room when it is touched with room 'default', by
\* socket (the REGISTER handler's set_client_room) or by source IP (a UDP
\* REGISTER datagram): no step takes a registry room from a meeting to 'default'.
C28_NoRoomDowngrade ==
    [][\A s \in Sockets :
          (InCC(control_clients, s) /\ InCC(control_clients', s)
             /\ RoomOf(control_clients, s) # "default")
          => RoomOf(control_clients', s) # "default"]_vars

\* a step in which a UDP server receives a datagram that fails header parsing
MalformedDatagram ==
    \/ \E a \in Addrs, d \in Datagrams(STREAM_VIDEO) : VideoMalformed(a, d)
    \/ \E a \in Addrs, d \in Datagrams(STREAM_AUDIO) : AudioMalformed(a, d)

\* C29  Malformed UDP datagrams change nothing: a datagram on the video or
\* audio port that fails header parsing is dropped with the member registry,
\* the stream registry and the jitter buffers unchanged; its source address
\* is not registered as a video or audio listener.
C29_MalformedDatagramDropped ==
    [][MalformedDatagram =>
          UNCHANGED <<control_clients, stream_clients, audio_buffers>>]_vars

\* a step in which handler s receives a packet that unpack_message rejects
MalformedPacket(s) == \E raw \in ControlPackets : HandleMalformed(s, raw)

\* C30  A malformed packet does not close the control connection: when a
\* packet with a wrong protocol version arrives on a member's control
\* connection, the connection stays open and its handler goes on reading,
\* and the member stays in the registry and in its room.
C30_MalformedPacketDropped ==
    [][\A s \in Sockets :
          MalformedPacket(s) =>
              /\ s \notin closed' /\ pc'[s] = "read"
              /\ InCC(control_clients, s) => InCC(control_clients', s)
              /\ rooms' = rooms /\ client_rooms' = client_rooms]_vars

\* what an append makes of buffer q: one chunk more at the end, the oldest
\* gone exactly when q was full
Appended(q, q2) ==
    IF Len(q) < JitterMaxLen
    THEN Len(q2) = Len(q) + 1 /\ SubSeq(q2, 1, Len(q)) = q
    ELSE Len(q2) = JitterMaxLen /\ SubSeq(q2, 1, JitterMaxLen - 1) = Tail(q)

C32_WrongSizeDiscarded ==
    /\ \A k \in DOMAIN audio_buffers :
          \A i \in 1..Len(audio_buffers[k]) : audio_buffers[k][i].ok
    /\ \A n \in 1..Len(lastMix) :
          /\ \A c \in lastMix[n].chunks : c.ok
          /\ \A f \in 1..Len(lastMix[n].frames) : \A c \in lastMix[n].frames[f].mix : c.ok

\* a datagram from k reached the audio port within the last CLIENT_TIMEOUT seconds
HeardLately(k) == now - heard[k] <= CLIENT_TIMEOUT

\* the registry holds k as the audio return address of its IP
AudioRegistered(k) ==
    \E i \in 1..Len(stream_clients) : stream_clients[i].ip = k[1] /\ stream_clients[i].audio = k[2]

\* C33  Audio idle cleanup: a source from which a datagram (STREAM_AUDIO or
\* REGISTER) arrived within the last 5 s keeps its jitter buffer and its audio
\* registration in every step, and a source with a buffer from which nothing
\* arrived for more than 5 s eventually has its buffer destroyed and its
\* registration dropped (unless it is heard again).
C33_IdleCleanup ==
    /\ [][\A k \in BurstSources :
             HeardLately(k)' =>
                 /\ k \in DOMAIN audio_buffers => k \in DOMAIN audio_buffers'
                 /\ AudioRegistered(k) => AudioRegistered(k)']_vars
    /\ \A k \in BurstSources :
          (k \in DOMAIN audio_buffers /\ ~HeardLately(k))
              ~> (HeardLately(k) \/ (k \notin DOMAIN audio_buffers /\ ~AudioRegistered(k)))

\* the payload-length field of the header of data
LengthField(data) == FromBigEndian(SubSeq(Explicit(Take(data, HEADER_SIZE)), 3, 6))

\* C34  Payload length limit: pack_message refuses a payload longer than 1 MiB,
\* and unpack_message refuses a packet whose payload-length field exceeds 1 MiB.
C34_PayloadLimit ==
    /\ (codec.packed # <<>> /\ BLen(codec.payload) > MAX_MESSAGE_SIZE) =>
           codec.packed[1] = Raised("ValueError")
    /\ (codec.unpacked # <<>> /\ BLen(codec.data[1]) >= HEADER_SIZE
          /\ LengthField(codec.data[1]) > MAX_MESSAGE_SIZE) =>
           codec.unpacked[1] = Raised("ValueError")

\* C35  Registry and room directory agree: for every connected member that has
\* sent REGISTER, the room the connection manager records for its socket is
\* the room the room directory records for it, also after UDP REGISTER
\* datagrams from the member's IP.
C35_RoomsAgree ==
    \A s \in Sockets :
        (InCC(control_clients, s) /\ s \in DOMAIN client_rooms) =>
            RoomOf(control_clients, s) = client_rooms[s]

\* the sockets that are values of a room's participants map
ParticipantSockets(room) == {room.participants[i].sock : i \in 1..Len(room.participants)}

\* C36  Room client list and participant map agree: for every room the sockets
\* of its clients list are the sockets of its participants map, each socket is
\* once in the list and under one username in the map, and every such socket
\* is a member of the registry.
C36_RoomListsAgree ==
    \A m \in DOMAIN rooms :
        /\ Range(rooms[m].clients) = ParticipantSockets(rooms[m])
        /\ \A i, j \in 1..Len(rooms[m].clients) :
              rooms[m].clients[i] = rooms[m].clients[j] => i = j
        /\ \A i, j \in 1..Len(rooms[m].participants) :
              rooms[m].participants[i].sock = rooms[m].participants[j].sock => i = j
        /\ \A s \in Range(rooms[m].clients) \cup ParticipantSockets(rooms[m]) :
              InCC(control_clients, s)

\* C37  A failed upload does not damage earlier files: when an upload has ended
\* in FILE_ACK_FAILURE, a file that was in storage under its filename when its
\* request came is still there with the same bytes.
C37_EarlierFileKept ==
    \A i \in 1..Len(lastFile) :
        (lastFile[i].request = "upload" /\ lastFile[i].pc = "done"
           /\ Acked(lastFile[i], "FILE_ACK_FAILURE") /\ lastFile[i].before # <<>>) =>
            /\ file_path_of(lastFile[i].filename) \in DOMAIN storage
            /\ inodes[storage[file_path_of(lastFile[i].filename)]] = lastFile[i].before[1]

\* remove_client of thread t is inside its with block and leaves it in this step
Pops(t) ==
    /\ At(t, {"remove"}, "pop")
    /\ Len(threads'[t]) = Len(threads[t])
    /\ threads'[t][Len(threads[t])].at = "unlock"

\* C38  remove_client is idempotent: a call for a socket that is in the member
\* map removes that member only and returns its own username and address; a
\* call for a socket that is not in the map (removed by an earlier or a
\* concurrent call) returns ("Unknown", ("0.0.0.0", 0)), leaves the member map,
\* the sockets and the stream registrations as they are and starts no
\* broadcast; a removed member never comes back, so one call per member removes.
C38_RemoveIdempotent ==
    [][/\ \A t \in Threads :
            Pops(t) =>
                LET s == Top(t).sock
                    g == threads'[t][Len(threads[t])]
                IN  IF InCC(control_clients, s)
                    THEN /\ \A x \in Sockets :
                                InCC(control_clients', x) <=> (InCC(control_clients, x) /\ x # s)
                         /\ g.ip = IpOf(s)
                         /\ g.named = (InfoOf(control_clients, s).username # "Unknown")
                    ELSE /\ control_clients' = control_clients
                         /\ closed' = closed
                         /\ g.ip = 0 /\ ~g.named
       /\ \A t \in Threads :
            (At(t, {"remove"}, "unlock") /\ Top(t).ip = 0 /\ threads'[t] # threads[t]) =>
                /\ stream_clients' = stream_clients
                /\ control_clients' = control_clients
                /\ threads'[t] = SubSeq(threads[t], 1, Len(threads[t]) - 1)
       /\ \A s \in Sockets :
            (s \in closed /\ ~InCC(control_clients, s)) => ~InCC(control_clients', s)
      ]_vars

\* two threads called remove_client for the same member: one removed it and is
\* now broadcasting, the other found nothing while streams are registered
C38_Witness ==
    \E t1 \in Threads : \E t2 \in Threads \ {t1} :
        /\ \E i \in 1..Len(threads[t1]) :
              /\ threads[t1][i].fn = "remove" /\ threads[t1][i].ip # 0
              /\ ~Idle(t2) /\ threads[t1][i].sock = Top(t2).sock
        /\ At(t2, {"remove"}, "unlock") /\ Top(t2).ip = 0
        /\ stream_clients # <<>>
        /\ control_clients # <<>>

\* the return addresses the registry holds for one IP and one stream kind
Held(kind, ip) ==
    {<<stream_clients[i].ip, IF kind = "video" THEN stream_clients[i].video
                             ELSE stream_clients[i].audio>> :
        i \in {j \in 1..Len(stream_clients) :
                 /\ stream_clients[j].ip = ip
                 /\ (IF kind = "video" THEN stream_clients[j].video
                     ELSE stream_clients[j].audio) # 0}}

SameIpTwice(listeners) ==
    \E i \in 1..Len(listeners), j \in 1..Len(listeners) :
        i # j /\ listeners[i][1] = listeners[j][1]

\* C39  One return address per IP and stream kind: the registry holds at most
\* one video and at most one audio address per IP, each the source address of
\* the last datagram from that IP on that stream's port, and the listener lists
\* never name one IP twice.
C39_OneAddressPerIp ==
    /\ \A kind \in {"video", "audio"}, ip \in IPs :
          /\ Cardinality(Held(kind, ip)) <= 1
          /\ \A a \in Held(kind, ip) : a = <<ip, recent[kind][ip]>>
    /\ \A room \in AllRooms \cup {None} :
          /\ ~SameIpTwice(get_video_listeners(control_clients, stream_clients, room))
          /\ ~SameIpTwice(get_audio_listeners(control_clients, stream_clients, room))

\* an IP is heard on the video port from one source port and on the audio port
\* from another, while a second IP is registered for video
C39_Witness ==
    \E ip \in IPs :
        /\ Held("video", ip) = {<<ip, 2>>} /\ Held("audio", ip) = {<<ip, 1>>}
        /\ lastVideo # <<>> /\ lastVideo[1].src = <<ip, 2>>
        /\ \E other \in IPs \ {ip} : Held("video", other) # {}

\* the operations on the control_clients map
MapOps == {"test", "lookup", "insert", "pop", "iterate", "len"}

\* C40  Lock discipline on the member map: every read or write of
\* control_clients is made by a thread that holds control_clients_lock.
C40_MapUnderLock == \A e \in io_log : e.op \in MapOps => e.held

=============================================================================
